---- MODULE Spec2Model ----
(***************************************************************************)
(* Box lifecycle of the LMIS backend: the Box and BoxEvent tables, the     *)
(* facility directory and the handlers that move boxes through             *)
(*   CREATED -> IN_WAREHOUSE -> IN_TRANSIT -> IN_FACILITY -> DISPENSED.    *)
(*                                                                         *)
(* Routes modelled                                                         *)
(*   orders.js        POST /:orderId/boxes/generate          (Generate)    *)
(*   transactions     POST /warehouse-receive, /dispatch,                  *)
(*                    /facility-receive, /dispense  -- the router that the *)
(*                    module exports (second half of the file)             *)
(*   transactions(1)  the same four routes of the first router of that     *)
(*                    file (suffix 1)                                      *)
(*   boxes.js         POST /dispatch, /facility-receive      (prefix Boxes)*)
(*   clinical.js      POST /children/:childId/dispense    (prefix Clinical)*)
(*   boxes.js         GET /stock/facility/:facilityId            (stock)   *)
(*   facilities       POST /, PATCH /:facilityId/link-warehouse,           *)
(*                    PATCH /bulk/link-warehouse; POST /admin/users        *)
(*   scripts          backfillWarehouse.js, reset_order.js                 *)
(*                                                                         *)
(* A handler is split where the code splits it: the part that runs before  *)
(* prisma.$transaction (authorization, lookups, validation against the     *)
(* rows read) and the transaction body, which works on the rows read       *)
(* before it started.  The sequential specification runs both parts in one *)
(* step; the concurrent one lets other requests commit between them.       *)
(***************************************************************************)
EXTENDS Integers, Sequences, FiniteSets, TLC

NULL == "null"

\* ------------------------------------------------------------------ bounds
MaxBoxes == 2      \* Box rows ever created
MaxQty == 2        \* quantity of one generate request
MaxBatch == 2      \* length of a boxUids list
MaxBoxesAll == 1   \* Box rows ever created, specifications of more routers
MaxEvents == 6     \* BoxEvent rows of one box, concurrent specification
MaxInflight == 2   \* requests between lookup and transaction at one time

\* ------------------------------------------------------------------ state
VARIABLES
  facility,   \* Facility table: id -> [type, warehouseId]
  user,       \* User table: id -> [role, facilityId]
  order,      \* Order table: id -> [orderNumber, donorName]
  product,    \* Product table: code -> name, NULL where the table has no row
  box,        \* Box table: id -> [boxUid, orderId, status, currentFacilityId]
  events,     \* BoxEvent table: boxId -> its rows in createdAt order
  resp,       \* the response of the request handled last
  inflight    \* requests between their lookups and their transaction

refs == <<facility, user, order, product>>
vars == <<facility, user, order, product, box, events, resp, inflight>>

Status == <<"CREATED", "IN_WAREHOUSE", "IN_TRANSIT", "IN_FACILITY", "DISPENSED">>

\* The facility directory and the users of the deployment.
FacilityIds == {"W1", "W2", "F1", "F2"}
InitFacility ==
  [f \in FacilityIds |->
     CASE f = "W1" -> [type |-> "WAREHOUSE", warehouseId |-> NULL]
       [] f = "W2" -> [type |-> "WAREHOUSE", warehouseId |-> NULL]
       [] f = "F1" -> [type |-> "FACILITY", warehouseId |-> "W1"]
       [] f = "F2" -> [type |-> "FACILITY", warehouseId |-> "W2"]]

UserIds == {"admin", "adminW1", "adminF2", "wo1", "wo2", "fo1", "fo2", "cl1"}
InitUser ==
  [u \in UserIds |->
     CASE u = "admin"   -> [role |-> "SUPER_ADMIN", facilityId |-> NULL]
       [] u = "adminW1" -> [role |-> "SUPER_ADMIN", facilityId |-> "W1"]
       [] u = "adminF2" -> [role |-> "SUPER_ADMIN", facilityId |-> "F2"]
       [] u = "wo1"     -> [role |-> "WAREHOUSE_OFFICER", facilityId |-> "W1"]
       [] u = "wo2"     -> [role |-> "WAREHOUSE_OFFICER", facilityId |-> "W2"]
       [] u = "fo1"     -> [role |-> "FACILITY_OFFICER", facilityId |-> "F1"]
       [] u = "fo2"     -> [role |-> "FACILITY_OFFICER", facilityId |-> "F2"]
       [] u = "cl1"     -> [role |-> "CLINICIAN", facilityId |-> "F1"]]

OrderIds == {"o1"}
InitOrder == [o \in OrderIds |-> [orderNumber |-> "ORD", donorName |-> NULL]]

\* The database a handler reads and writes.
Db == [box |-> box, events |-> events]

\* ---------------------------------------------------------------- helpers
RECURSIVE SortedIds(_)
SortedIds(S) ==
  IF S = {} THEN <<>>
  ELSE LET m == CHOOSE x \in S : \A y \in S : x <= y
       IN <<m>> \o SortedIds(S \ {m})

Range(s) == {s[i] : i \in 1..Len(s)}

\* prisma.box.findMany({ where: { boxUid: { in: uids } } }): the rows, by id.
findMany(db, uids) ==
  LET ids == SortedIds({i \in DOMAIN db.box : db.box[i].boxUid \in uids})
  IN [k \in 1..Len(ids) |->
        [id |-> ids[k],
         boxUid |-> db.box[ids[k]].boxUid,
         status |-> db.box[ids[k]].status,
         currentFacilityId |-> db.box[ids[k]].currentFacilityId]]

\* (boxUpdateAll: without the where clause, the columns change in every row.)
boxUpdateAll(db, id, data) ==
  [db EXCEPT !.box =
     [i \in DOMAIN db.box |->
        [c \in DOMAIN db.box[i] |-> IF c \in DOMAIN data THEN data[c] ELSE db.box[i][c]]]]

\* tx.box.update({ where: { id }, data }): the columns named in data change.
boxUpdate(db, id, data) ==
  [db EXCEPT !.box[id] =
     [c \in DOMAIN db.box[id] |-> IF c \in DOMAIN data THEN data[c] ELSE db.box[id][c]]]

\* tx.boxEvent.create({ data })
\* (boxEventCreateReplace: the new row takes the place of the rows of the box.)
boxEventCreateReplace(db, id, ev) ==
  [db EXCEPT !.events[id] = <<ev>>]
boxEventCreate(db, id, ev) ==
  [db EXCEPT !.events[id] = Append(@, ev)]

\* (EventAdjustment: every row is written with the type ADJUSTMENT.)
EventAdjustment(type, by, from, to) ==
  [type |-> "ADJUSTMENT", performedByUserId |-> by, fromFacilityId |-> from,
   toFacilityId |-> to]
\* (EventSwapped: the two facility columns exchanged.)
EventSwapped(type, by, from, to) ==
  [type |-> type, performedByUserId |-> by, fromFacilityId |-> to, toFacilityId |-> from]
Event(type, by, from, to) ==
  [type |-> type, performedByUserId |-> by, fromFacilityId |-> from, toFacilityId |-> to]

\* prisma.$transaction(async (tx) => ...): a throw inside the callback rolls
\* every write of the callback back.
\* (TransactionNoRollback: the writes made before the throw stay.)
TransactionNoRollback(before, r) == r.db
Transaction(before, r) == IF r.thrown THEN before ELSE r.db

\* requireRole(...roles)
\* (requireRoleAny: every role passes.)
requireRoleAny(u, roles) == TRUE
requireRole(u, roles) == user[u].role \in roles

\* getMyFacilityOrThrow(user): the facility row, or NULL when it throws.
getMyFacilityOrThrow(u) ==
  IF user[u].facilityId = NULL THEN NULL
  ELSE IF user[u].facilityId \notin DOMAIN facility THEN NULL
  ELSE user[u].facilityId

\* A request identifier is a boxUid with or without whitespace around it;
\* NoUid is the absent or empty one.
BoxUidOf(orderNumber, seq) == [order |-> orderNumber, seq |-> seq]
Raw(uid) == [uid |-> uid, pad |-> FALSE]
Padded(uid) == [uid |-> uid, pad |-> TRUE]
NoUid == Raw(BoxUidOf(NULL, 0))

\* String(x).trim()
Trim(x) == x.uid

RECURSIVE Dedupe(_)
Dedupe(s) ==
  IF s = <<>> THEN <<>>
  ELSE LET front == Dedupe(SubSeq(s, 1, Len(s) - 1))
       IN IF s[Len(s)] \in Range(front) THEN front ELSE Append(front, s[Len(s)])

\* getBoxesOrThrow(boxUids)
getBoxesOrThrow(db, boxUids) ==
  LET uids == Dedupe([k \in 1..Len(boxUids) |-> Trim(boxUids[k])])
      boxes == findMany(db, Range(uids))
      found == {boxes[k].boxUid : k \in 1..Len(boxes)}
  IN IF Len(boxes) # Len(uids)
     THEN [thrown |-> TRUE, boxes |-> <<>>, missing |-> {u \in Range(uids) : u \notin found}]
     ELSE [thrown |-> FALSE, boxes |-> boxes, missing |-> {}]

\* An outcome: the HTTP status, the database after the request and the lists
\* a warehouse-receive reports.
\* (OutcomeSwapped: the two lists change places in the answer.)
OutcomeSwapped(code, db, updated, skipped) ==
  [code |-> code, db |-> db, updated |-> skipped, skipped |-> updated]
Outcome(code, db, updated, skipped) ==
  [code |-> code, db |-> db, updated |-> updated, skipped |-> skipped]
Rejected(code, db) == Outcome(code, db, <<>>, <<>>)

\* The result of the part of a handler that precedes its transaction: a
\* status to return at once (code # 0) or the values it goes on with.
Stop(code) == [code |-> code, boxes |-> <<>>, from |-> NULL, to |-> NULL]
GoOn(boxes, from, to) == [code |-> 0, boxes |-> boxes, from |-> from, to |-> to]

\* The last DISPATCH event of a box (findMany orderBy createdAt desc, first
\* row per boxId), or NoEvent.
NoEvent == Event("none", NULL, NULL, NULL)
LastDispatch(db, id) ==
  LET evs == db.events[id]
      idx == {k \in 1..Len(evs) : evs[k].type = "DISPATCH"}
  IN IF idx = {} THEN NoEvent
     ELSE evs[CHOOSE k \in idx : \A j \in idx : j <= k]

\* ------------------------------------------- transactions: warehouse-receive
WarehouseReceiveData(my) == [status |-> "IN_WAREHOUSE", currentFacilityId |-> my]

WarehouseReceivePre(db, u, boxUids) ==
  IF ~requireRole(u, {"SUPER_ADMIN", "WAREHOUSE_OFFICER"}) THEN Stop(403)
  ELSE IF Len(boxUids) = 0 THEN Stop(400)
  ELSE LET my == getMyFacilityOrThrow(u) IN
    IF my = NULL THEN Stop(400)
    ELSE IF facility[my].type # "WAREHOUSE" THEN Stop(403)
    ELSE LET g == getBoxesOrThrow(db, boxUids) IN
      IF g.thrown THEN Stop(400) ELSE GoOn(g.boxes, NULL, my)

\* Idempotent: the box is already in this warehouse.
\* (AlreadyReceivedNever: without the test.)
AlreadyReceivedNever(b, my) == FALSE
\* (AlreadyReceivedAnywhere: without the comparison of the facility.)
AlreadyReceivedAnywhere(b, my) == b.status = "IN_WAREHOUSE"
AlreadyReceived(b, my) == b.status = "IN_WAREHOUSE" /\ b.currentFacilityId = my

RECURSIVE WarehouseReceiveLoop(_, _, _, _, _)
WarehouseReceiveLoop(acc, boxes, k, u, my) ==
  IF k > Len(boxes) THEN acc
  ELSE LET b == boxes[k] IN
    IF AlreadyReceived(b, my)
    THEN WarehouseReceiveLoop([acc EXCEPT !.skipped = Append(@, b.boxUid)],
                              boxes, k + 1, u, my)
    ELSE IF b.status # "CREATED" THEN [acc EXCEPT !.thrown = TRUE]
    ELSE WarehouseReceiveLoop(
           [acc EXCEPT
              !.db = boxEventCreate(boxUpdate(@, b.id, WarehouseReceiveData(my)), b.id,
                                    Event("WAREHOUSE_RECEIVE", u, NULL, my)),
              !.updated = Append(@, b.boxUid)],
           boxes, k + 1, u, my)

WarehouseReceiveTx(db, p, u) ==
  LET r == WarehouseReceiveLoop([thrown |-> FALSE, db |-> db, updated |-> <<>>,
                                 skipped |-> <<>>], p.boxes, 1, u, p.to)
  IN IF r.thrown THEN Rejected(400, Transaction(db, r))
     ELSE Outcome(200, Transaction(db, r), r.updated, r.skipped)

\* ---------------------------------------------------- transactions: dispatch
\* (DispatchDataKept: the box keeps its place while in transit.)
DispatchDataKept == [status |-> "IN_TRANSIT"]
DispatchData == [status |-> "IN_TRANSIT", currentFacilityId |-> NULL]

DispatchPre(db, u, boxUids, toFacilityCode) ==
  IF ~requireRole(u, {"SUPER_ADMIN", "WAREHOUSE_OFFICER"}) THEN Stop(403)
  ELSE IF Len(boxUids) = 0 THEN Stop(400)
  ELSE IF toFacilityCode = NULL THEN Stop(400)
  ELSE LET from == getMyFacilityOrThrow(u) IN
    IF from = NULL THEN Stop(400)
    ELSE IF facility[from].type # "WAREHOUSE" THEN Stop(403)
    ELSE IF toFacilityCode \notin DOMAIN facility THEN Stop(404)
    ELSE IF facility[toFacilityCode].type # "FACILITY" THEN Stop(400)
    ELSE IF user[u].role # "SUPER_ADMIN"
            /\ (facility[toFacilityCode].warehouseId = NULL
                \/ facility[toFacilityCode].warehouseId # from)
    THEN Stop(403)
    ELSE LET g == getBoxesOrThrow(db, boxUids) IN
      IF g.thrown THEN Stop(400) ELSE GoOn(g.boxes, from, toFacilityCode)

\* The check the transaction makes on each row read before it.
\* (DispatchEligibleAlways: without the check.)
DispatchEligibleAlways(b, from) == TRUE
DispatchEligible(b, from) == b.status = "IN_WAREHOUSE" /\ b.currentFacilityId = from

RECURSIVE DispatchLoop(_, _, _, _, _, _)
DispatchLoop(acc, boxes, k, u, from, to) ==
  IF k > Len(boxes) THEN acc
  ELSE LET b == boxes[k] IN
    IF ~DispatchEligible(b, from) THEN [acc EXCEPT !.thrown = TRUE]
    ELSE DispatchLoop(
           [acc EXCEPT
              !.db = boxEventCreate(boxUpdate(@, b.id, DispatchData), b.id,
                                    Event("DISPATCH", u, from, to))],
           boxes, k + 1, u, from, to)

DispatchTx(db, p, u) ==
  LET r == DispatchLoop([thrown |-> FALSE, db |-> db], p.boxes, 1, u, p.from, p.to)
  IN IF r.thrown THEN Rejected(400, Transaction(db, r))
     ELSE Rejected(200, Transaction(db, r))

\* -------------------------------------------- transactions: facility-receive
FacilityReceiveData(my) == [status |-> "IN_FACILITY", currentFacilityId |-> my]

FacilityReceivePre(db, u, boxUids) ==
  IF ~requireRole(u, {"SUPER_ADMIN", "FACILITY_OFFICER"}) THEN Stop(403)
  ELSE IF Len(boxUids) = 0 THEN Stop(400)
  ELSE LET my == getMyFacilityOrThrow(u) IN
    IF my = NULL THEN Stop(400)
    ELSE IF facility[my].type # "FACILITY" THEN Stop(403)
    ELSE LET g == getBoxesOrThrow(db, boxUids) IN
      IF g.thrown THEN Stop(400) ELSE GoOn(g.boxes, NULL, my)

\* req.user.role !== "SUPER_ADMIN" && lastDispatch.toFacilityId !== myFacility.id
\* (WrongDestinationNever: without the check.)
WrongDestinationNever(u, lastDispatch, my) == FALSE
WrongDestination(u, lastDispatch, my) ==
  user[u].role # "SUPER_ADMIN" /\ lastDispatch.toFacilityId # my

\* start is the database when the transaction began: the DISPATCH events are
\* read once, before the loop.
RECURSIVE FacilityReceiveLoop(_, _, _, _, _, _)
FacilityReceiveLoop(acc, start, boxes, k, u, my) ==
  IF k > Len(boxes) THEN acc
  ELSE LET b == boxes[k]
           lastDispatch == LastDispatch(start, b.id)
       IN
    IF b.status # "IN_TRANSIT" THEN [acc EXCEPT !.thrown = TRUE]
    ELSE IF lastDispatch = NoEvent THEN [acc EXCEPT !.thrown = TRUE]
    ELSE IF WrongDestination(u, lastDispatch, my) THEN [acc EXCEPT !.thrown = TRUE]
    ELSE FacilityReceiveLoop(
           [acc EXCEPT
              !.db = boxEventCreate(boxUpdate(@, b.id, FacilityReceiveData(my)), b.id,
                                    Event("FACILITY_RECEIVE", u,
                                          lastDispatch.fromFacilityId, my))],
           start, boxes, k + 1, u, my)

FacilityReceiveTx(db, p, u) ==
  LET r == FacilityReceiveLoop([thrown |-> FALSE, db |-> db], db, p.boxes, 1, u, p.to)
  IN IF r.thrown THEN Rejected(400, Transaction(db, r))
     ELSE Rejected(200, Transaction(db, r))

\* ---------------------------------------------------- transactions: dispense
DispenseData == [status |-> "DISPENSED"]

\* box.status !== "IN_FACILITY" || box.currentFacilityId !== myFacility.id
\* (DispenseUnavailableNever: without the check.)
DispenseUnavailableNever(b, my) == FALSE
DispenseUnavailable(b, my) == b.status # "IN_FACILITY" \/ b.currentFacilityId # my

DispensePre(db, u, boxUid) ==
  IF ~requireRole(u, {"SUPER_ADMIN", "CLINICIAN"}) THEN Stop(403)
  ELSE IF boxUid = NoUid THEN Stop(400)
  ELSE LET my == getMyFacilityOrThrow(u) IN
    IF my = NULL THEN Stop(400)
    ELSE IF facility[my].type # "FACILITY" THEN Stop(403)
    ELSE LET found == findMany(db, {Trim(boxUid)}) IN
      IF Len(found) = 0 THEN Stop(404)
      ELSE IF DispenseUnavailable(found[1], my) THEN Stop(400)
      ELSE GoOn(found, my, NULL)

DispenseTx(db, p, u) ==
  LET b == p.boxes[1]
      r == [thrown |-> FALSE,
            db |-> boxEventCreate(boxUpdate(db, b.id, DispenseData), b.id,
                                  Event("DISPENSE", u, p.from, NULL))]
  IN Rejected(200, Transaction(db, r))

\* ------------------------------------------------------- orders.js: generate
\* (GenerateDataCreated: the row as the column defaults would leave it.)
GenerateDataVoid(warehouse) == [status |-> "VOID", currentFacilityId |-> NULL]
GenerateDataCreated(warehouse) == [status |-> "CREATED", currentFacilityId |-> NULL]
GenerateData(warehouse) == [status |-> "IN_WAREHOUSE", currentFacilityId |-> warehouse]

\* A JSON value of the request body: a number (counted in halves, so that 1.5
\* is one), a string that spells a number, a string that spells none ("text"),
\* a boolean (twice = 2 for true, 0 for false) or nothing ("undefined").
Json(type, twice) == [type |-> type, twice |-> twice]

\* !x
Falsy(x) ==
  \/ x.type = "undefined"
  \/ x.type \in {"number", "boolean"} /\ x.twice = 0

\* Number(x): NaN, or the number in halves.
ToNumber(x) == [nan |-> x.type \in {"undefined", "text"}, twice |-> x.twice]

\* Number.isInteger(n)
isInteger(n) == ~n.nan /\ n.twice % 2 = 0

\* !isNaN(new Date(expiryDate).getTime())
DateParses(expiryDate) == expiryDate \in {"2027-01-31"}

\* body.product: productCode, productName and batchNo are all sent.
GeneratePre(db, u, orderId, body) ==
  IF ~requireRole(u, {"SUPER_ADMIN", "WAREHOUSE_OFFICER"}) THEN Stop(403)
  ELSE IF \/ ~body.product
          \/ body.expiryDate = NULL
          \/ Falsy(body.quantity)
          \/ body.warehouseFacilityId = NULL
  THEN Stop(400)
  ELSE LET qty == ToNumber(body.quantity) IN
    IF ~isInteger(qty) \/ qty.twice <= 0 THEN Stop(400)
    ELSE IF ~DateParses(body.expiryDate) THEN Stop(400)
    ELSE IF orderId \notin DOMAIN order THEN Stop(404)
    ELSE IF body.warehouseFacilityId \notin DOMAIN facility THEN Stop(404)
    ELSE IF /\ body.donorName # NULL
            /\ order[orderId].donorName # NULL
            /\ order[orderId].donorName # body.donorName
    THEN Stop(400)
    ELSE GoOn(<<>>, NULL, body.warehouseFacilityId)

\* The writes that precede the transaction: prisma.order.update of the
\* donorName when the request sends one and the order has none, and
\* prisma.product.upsert({ where: { code }, update: { name }, create }).
GenerateUpserts(ord, prod, orderId, body) ==
  [order |-> IF body.donorName # NULL /\ ord[orderId].donorName = NULL
             THEN [ord EXCEPT ![orderId].donorName = body.donorName]
             ELSE ord,
   product |-> [prod EXCEPT ![body.productCode] = body.productName]]

\* The unique index Box_boxUid_key: a row with this boxUid exists.
\* (boxUidTakenNever: without the index.)
boxUidTakenNever(db, boxUid) == FALSE
boxUidTaken(db, boxUid) == \E j \in DOMAIN db.box : db.box[j].boxUid = boxUid

\* tx.box.create: a fresh id; the unique index on boxUid makes it throw.
RECURSIVE GenerateLoop(_, _, _, _, _, _, _)
GenerateLoop(acc, i, qty, startSeq, orderId, u, warehouse) ==
  IF i >= qty THEN acc
  ELSE LET boxUid == BoxUidOf(order[orderId].orderNumber, startSeq + i)
           id == Cardinality(DOMAIN acc.db.box) + 1
           data == GenerateData(warehouse)
           \* product.id, batchNo and exp of the request: the bodies that pass
           \* the validation all carry the same product, batch and date.
           row == [boxUid |-> boxUid, orderId |-> orderId, productId |-> "P1",
                   batchNo |-> "B1", expiryDate |-> [day |-> "2027-01-31", time |-> 0],
                   status |-> data.status,
                   currentFacilityId |-> data.currentFacilityId]
       IN
    IF boxUidTaken(acc.db, boxUid)
    THEN [acc EXCEPT !.thrown = TRUE]
    ELSE GenerateLoop(
           [acc EXCEPT
              !.db = [box |-> (id :> row) @@ acc.db.box,
                      events |-> (id :> <<Event("QR_CREATED", u, NULL, warehouse),
                                          Event("WAREHOUSE_RECEIVE", u, NULL, warehouse)>>)
                                 @@ acc.db.events]],
           i + 1, qty, startSeq, orderId, u, warehouse)

\* tx.box.count({ where: { orderId } }), the first statement of the transaction
GenerateCount(db, orderId) ==
  Cardinality({i \in DOMAIN db.box : db.box[i].orderId = orderId})

\* The creates of the transaction, from the count it read.
GenerateInsert(db, p, u, orderId, quantity, existingCount) ==
  LET r == GenerateLoop([thrown |-> FALSE, db |-> db], 0, quantity, existingCount + 1,
                        orderId, u, p.to)
  IN IF r.thrown THEN Rejected(500, Transaction(db, r))
     ELSE Rejected(200, Transaction(db, r))

GenerateTx(db, p, u, orderId, quantity) ==
  GenerateInsert(db, p, u, orderId, quantity, GenerateCount(db, orderId))

\* ------------------------------------------------------- boxes.js: helpers
\* uniqueStrings(arr): String, trim, drop the empty ones, de-duplicate.
uniqueStrings(arr) ==
  LET trimmed == [k \in 1..Len(arr) |-> Trim(arr[k])]
  IN Dedupe(SelectSeq(trimmed, LAMBDA x : x # Trim(NoUid)))

\* assertFacilityExists(facilityId): FALSE when it throws (status 404).
assertFacilityExists(facilityId) == facilityId \in DOMAIN facility

\* tx.box.updateMany({ where: { id: { in: boxIds } }, data }) followed by
\* tx.boxEvent.createMany, one event per id.
RECURSIVE updateManyCreateMany(_, _, _, _, _)
updateManyCreateMany(db, boxes, k, data, ev) ==
  IF k > Len(boxes) THEN db
  ELSE updateManyCreateMany(boxEventCreate(boxUpdate(db, boxes[k].id, data), boxes[k].id, ev),
                            boxes, k + 1, data, ev)

\* ------------------------------------------------------- boxes.js: dispatch
BoxesDispatchData == [status |-> "IN_TRANSIT", currentFacilityId |-> NULL]

\* req.body.fromFacilityId ? ... : req.user.facilityId ? ... : null
BoxesFromFacilityId(u, bodyFrom) ==
  IF bodyFrom # NULL THEN bodyFrom ELSE user[u].facilityId

BoxesDispatchPre(db, u, bodyUids, bodyTo, bodyFrom) ==
  IF ~requireRole(u, {"SUPER_ADMIN", "WAREHOUSE_OFFICER"}) THEN Stop(403)
  ELSE LET boxUids == uniqueStrings(bodyUids)
           fromFacilityId == BoxesFromFacilityId(u, bodyFrom)
       IN
    IF Len(boxUids) = 0 THEN Stop(400)
    ELSE IF bodyTo = NULL THEN Stop(400)
    ELSE IF fromFacilityId = NULL THEN Stop(400)
    ELSE IF ~assertFacilityExists(fromFacilityId) \/ ~assertFacilityExists(bodyTo)
    THEN Stop(404)
    ELSE LET boxes == findMany(db, Range(boxUids)) IN
      IF Len(boxes) # Len(boxUids) THEN Stop(400)
      ELSE IF \E k \in 1..Len(boxes) :
                boxes[k].status # "IN_WAREHOUSE"
                \/ boxes[k].currentFacilityId # fromFacilityId
      THEN Stop(400)
      ELSE GoOn(boxes, fromFacilityId, bodyTo)

BoxesDispatchTx(db, p, u) ==
  LET r == [thrown |-> FALSE,
            db |-> updateManyCreateMany(db, p.boxes, 1, BoxesDispatchData,
                                        Event("DISPATCH", u, p.from, p.to))]
  IN Rejected(200, Transaction(db, r))

\* ----------------------------------------------- boxes.js: facility-receive
BoxesFacilityReceiveData(to) == [status |-> "IN_FACILITY", currentFacilityId |-> to]

\* req.body.toFacilityId ? ... : req.user.facilityId ? ... : null
BoxesToFacilityId(u, bodyTo) ==
  IF bodyTo # NULL THEN bodyTo ELSE user[u].facilityId

\* !ev || String(ev.toFacilityId) !== String(toFacilityId)
BoxesWrongDestination(ev, toFacilityId) ==
  ev = NoEvent \/ ev.toFacilityId # toFacilityId

BoxesFacilityReceivePre(db, u, bodyUids, bodyTo) ==
  IF ~requireRole(u, {"SUPER_ADMIN", "FACILITY_OFFICER"}) THEN Stop(403)
  ELSE LET boxUids == uniqueStrings(bodyUids)
           toFacilityId == BoxesToFacilityId(u, bodyTo)
       IN
    IF Len(boxUids) = 0 THEN Stop(400)
    ELSE IF toFacilityId = NULL THEN Stop(400)
    ELSE IF user[u].role = "FACILITY_OFFICER" /\ user[u].facilityId # toFacilityId
    THEN Stop(403)
    ELSE IF ~assertFacilityExists(toFacilityId) THEN Stop(404)
    ELSE LET boxes == findMany(db, Range(boxUids)) IN
      IF Len(boxes) # Len(boxUids) THEN Stop(400)
      ELSE IF \E k \in 1..Len(boxes) : boxes[k].status # "IN_TRANSIT" THEN Stop(400)
      ELSE IF \E k \in 1..Len(boxes) :
                BoxesWrongDestination(LastDispatch(db, boxes[k].id), toFacilityId)
      THEN Stop(400)
      ELSE GoOn(boxes, NULL, toFacilityId)

BoxesFacilityReceiveTx(db, p, u) ==
  LET r == [thrown |-> FALSE,
            db |-> updateManyCreateMany(db, p.boxes, 1, BoxesFacilityReceiveData(p.to),
                                        Event("FACILITY_RECEIVE", u, NULL, p.to))]
  IN Rejected(200, Transaction(db, r))

\* ------------------------------------------ transactions, the first router
\* prisma.box.findMany({ where: { boxUid: { in: boxUids } } }) on the
\* identifiers as sent: a padded identifier matches no row.
findManyRaw(db, boxUids) ==
  findMany(db, {boxUids[k].uid : k \in {j \in 1..Len(boxUids) : ~boxUids[j].pad}})

WarehouseReceive1Pre(db, u, boxUids) ==
  IF ~requireRole(u, {"SUPER_ADMIN", "WAREHOUSE_OFFICER"}) THEN Stop(403)
  ELSE IF Len(boxUids) = 0 THEN Stop(400)
  ELSE IF user[u].facilityId = NULL THEN Stop(400)
  ELSE LET boxes == findManyRaw(db, boxUids) IN
    IF Len(boxes) # Len(boxUids) THEN Stop(404)
    ELSE GoOn(boxes, NULL, user[u].facilityId)

WarehouseReceive1Tx(db, p, u) ==
  LET r == WarehouseReceiveLoop([thrown |-> FALSE, db |-> db, updated |-> <<>>,
                                 skipped |-> <<>>], p.boxes, 1, u, p.to)
  IN Rejected(IF r.thrown THEN 400 ELSE 200, Transaction(db, r))

Dispatch1Data == [status |-> "IN_TRANSIT"]

Dispatch1Pre(db, u, boxUids, toFacilityCode) ==
  IF ~requireRole(u, {"SUPER_ADMIN", "WAREHOUSE_OFFICER"}) THEN Stop(403)
  ELSE IF Len(boxUids) = 0 THEN Stop(400)
  ELSE IF toFacilityCode = NULL THEN Stop(400)
  ELSE IF user[u].facilityId = NULL THEN Stop(400)
  ELSE IF toFacilityCode \notin DOMAIN facility THEN Stop(404)
  ELSE GoOn(findManyRaw(db, boxUids), user[u].facilityId, toFacilityCode)

RECURSIVE Dispatch1Loop(_, _, _, _, _, _)
Dispatch1Loop(acc, boxes, k, u, from, to) ==
  IF k > Len(boxes) THEN acc
  ELSE LET b == boxes[k] IN
    IF b.status # "IN_WAREHOUSE" \/ b.currentFacilityId # from
    THEN [acc EXCEPT !.thrown = TRUE]
    ELSE Dispatch1Loop(
           [acc EXCEPT
              !.db = boxEventCreate(boxUpdate(@, b.id, Dispatch1Data), b.id,
                                    Event("DISPATCH", u, from, to))],
           boxes, k + 1, u, from, to)

Dispatch1Tx(db, p, u) ==
  LET r == Dispatch1Loop([thrown |-> FALSE, db |-> db], p.boxes, 1, u, p.from, p.to)
  IN Rejected(IF r.thrown THEN 400 ELSE 200, Transaction(db, r))

FacilityReceive1Pre(db, u, boxUids) ==
  IF ~requireRole(u, {"SUPER_ADMIN", "FACILITY_OFFICER"}) THEN Stop(403)
  ELSE IF Len(boxUids) = 0 THEN Stop(400)
  ELSE IF user[u].facilityId = NULL THEN Stop(400)
  ELSE GoOn(findManyRaw(db, boxUids), NULL, user[u].facilityId)

RECURSIVE FacilityReceive1Loop(_, _, _, _, _)
FacilityReceive1Loop(acc, boxes, k, u, my) ==
  IF k > Len(boxes) THEN acc
  ELSE LET b == boxes[k] IN
    IF b.status # "IN_TRANSIT" THEN [acc EXCEPT !.thrown = TRUE]
    ELSE FacilityReceive1Loop(
           [acc EXCEPT
              !.db = boxEventCreate(boxUpdate(@, b.id, FacilityReceiveData(my)), b.id,
                                    Event("FACILITY_RECEIVE", u, NULL, my))],
           boxes, k + 1, u, my)

FacilityReceive1Tx(db, p, u) ==
  LET r == FacilityReceive1Loop([thrown |-> FALSE, db |-> db], p.boxes, 1, u, p.to)
  IN Rejected(IF r.thrown THEN 400 ELSE 200, Transaction(db, r))

Dispense1Pre(db, u, boxUid) ==
  IF ~requireRole(u, {"SUPER_ADMIN", "CLINICIAN"}) THEN Stop(403)
  ELSE IF boxUid = NoUid THEN Stop(400)
  ELSE IF user[u].facilityId = NULL THEN Stop(400)
  ELSE LET found == findManyRaw(db, <<boxUid>>) IN
    IF Len(found) = 0 THEN Stop(404)
    ELSE IF found[1].status # "IN_FACILITY"
            \/ found[1].currentFacilityId # user[u].facilityId
    THEN Stop(400)
    ELSE GoOn(found, user[u].facilityId, NULL)

\* -------------------------------------------------- clinical.js: dispense
\* The Child table: the children enrolled, each at a facility.
Child == [c \in {"c1"} |-> [facilityId |-> "F1"]]

\* assertChildInMyFacility(req, childId): NULL, "FORBIDDEN" or the child.
assertChildInMyFacility(u, childId) ==
  IF childId \notin DOMAIN Child THEN NULL
  ELSE IF user[u].role = "SUPER_ADMIN" THEN childId
  ELSE IF user[u].facilityId = NULL THEN NULL
  ELSE IF Child[childId].facilityId # user[u].facilityId THEN "FORBIDDEN"
  ELSE childId

\* POST /children/:childId/dispense with a valid quantity; boxUid is optional
\* (NoUid: the dispense is recorded without a box).
ClinicalDispensePre(db, u, childId, boxUid) ==
  IF ~requireRole(u, {"SUPER_ADMIN", "CLINICIAN"}) THEN Stop(403)
  ELSE LET childCheck == assertChildInMyFacility(u, childId) IN
    IF childCheck = NULL THEN Stop(404)
    ELSE IF childCheck = "FORBIDDEN" THEN Stop(403)
    ELSE IF boxUid = NoUid THEN GoOn(<<>>, Child[childId].facilityId, NULL)
    ELSE LET found == findMany(db, {Trim(boxUid)}) IN
      IF Len(found) = 0 THEN Stop(404)
      ELSE IF found[1].currentFacilityId # Child[childId].facilityId
              \/ found[1].status # "IN_FACILITY"
      THEN Stop(400)
      ELSE GoOn(found, Child[childId].facilityId, NULL)

ClinicalDispenseTx(db, p, u) ==
  LET r == [thrown |-> FALSE,
            db |-> updateManyCreateMany(db, p.boxes, 1, DispenseData,
                                        Event("DISPENSE", u, p.from, NULL))]
  IN Rejected(201, Transaction(db, r))

\* ------------------------------------------- a request handled in one piece
generate(db, u, orderId, body) ==
  LET p == GeneratePre(db, u, orderId, body)
  IN IF p.code # 0 THEN Rejected(p.code, db)
     ELSE GenerateTx(db, p, u, orderId, ToNumber(body.quantity).twice \div 2)

warehouseReceive(db, u, boxUids) ==
  LET p == WarehouseReceivePre(db, u, boxUids)
  IN IF p.code # 0 THEN Rejected(p.code, db) ELSE WarehouseReceiveTx(db, p, u)

dispatch(db, u, boxUids, toFacilityCode) ==
  LET p == DispatchPre(db, u, boxUids, toFacilityCode)
  IN IF p.code # 0 THEN Rejected(p.code, db) ELSE DispatchTx(db, p, u)

facilityReceive(db, u, boxUids) ==
  LET p == FacilityReceivePre(db, u, boxUids)
  IN IF p.code # 0 THEN Rejected(p.code, db) ELSE FacilityReceiveTx(db, p, u)

dispense(db, u, boxUid) ==
  LET p == DispensePre(db, u, boxUid)
  IN IF p.code # 0 THEN Rejected(p.code, db) ELSE DispenseTx(db, p, u)

boxesDispatch(db, u, bodyUids, bodyTo, bodyFrom) ==
  LET p == BoxesDispatchPre(db, u, bodyUids, bodyTo, bodyFrom)
  IN IF p.code # 0 THEN Rejected(p.code, db) ELSE BoxesDispatchTx(db, p, u)

boxesFacilityReceive(db, u, bodyUids, bodyTo) ==
  LET p == BoxesFacilityReceivePre(db, u, bodyUids, bodyTo)
  IN IF p.code # 0 THEN Rejected(p.code, db) ELSE BoxesFacilityReceiveTx(db, p, u)

warehouseReceive1(db, u, boxUids) ==
  LET p == WarehouseReceive1Pre(db, u, boxUids)
  IN IF p.code # 0 THEN Rejected(p.code, db) ELSE WarehouseReceive1Tx(db, p, u)

dispatch1(db, u, boxUids, toFacilityCode) ==
  LET p == Dispatch1Pre(db, u, boxUids, toFacilityCode)
  IN IF p.code # 0 THEN Rejected(p.code, db) ELSE Dispatch1Tx(db, p, u)

facilityReceive1(db, u, boxUids) ==
  LET p == FacilityReceive1Pre(db, u, boxUids)
  IN IF p.code # 0 THEN Rejected(p.code, db) ELSE FacilityReceive1Tx(db, p, u)

dispense1(db, u, boxUid) ==
  LET p == Dispense1Pre(db, u, boxUid)
  IN IF p.code # 0 THEN Rejected(p.code, db) ELSE DispenseTx(db, p, u)

clinicalDispense(db, u, childId, boxUid) ==
  LET p == ClinicalDispensePre(db, u, childId, boxUid)
  IN IF p.code # 0 THEN Rejected(p.code, db) ELSE ClinicalDispenseTx(db, p, u)

\* ------------------------------------------------------------------ inputs
\* Request identifiers of the boxes that may come to exist (cap of them) and
\* of one that never does, and the boxUids lists over them (one list per set
\* of identifiers).
SentUid(n) == Raw(BoxUidOf("ORD", n))
SentUids(cap) == {SentUid(n) : n \in 1..(cap + 1)}
UidList(ns) == [k \in 1..Cardinality(ns) |-> SentUid(SortedIds(ns)[k])]
UidLists(cap) ==
  {UidList(ns) : ns \in {x \in SUBSET (1..(cap + 1)) : Cardinality(x) <= MaxBatch}}
\* Lists that repeat an identifier or pad one with whitespace.
RepeatedLists(cap) ==
  UNION {{<<SentUid(n), SentUid(n)>>, <<Padded(SentUid(n).uid)>>,
          <<Padded(SentUid(n).uid), SentUid(n)>>} : n \in 1..cap}
SentLists(cap) == UidLists(cap) \cup RepeatedLists(cap)
FacilityCodes == {"F1", "F2", "W2", "nowhere", NULL}
Actors == {"adminF2", "wo1", "wo2", "fo1", "fo2", "cl1"}
GenActors == {"wo1", "fo1"}
GenFacilities == {"W1", "W2", "nowhere"}
GenOrders == OrderIds \cup {"noorder"}
\* The body of a well-formed generate request for n boxes, and the bodies
\* sent: well-formed for 0..MaxQty boxes at an existing or a missing facility,
\* and the well-formed one for one box at W1 with one thing wrong.
Body(n, w) ==
  [product |-> TRUE, productCode |-> "RUTF", productName |-> "Plumpy", donorName |-> NULL,
   expiryDate |-> "2027-01-31", quantity |-> Json("number", 2 * n),
   warehouseFacilityId |-> w]
GenBodies ==
  {Body(n, w) : n \in 0..MaxQty, w \in GenFacilities}
  \cup {[Body(1, "W1") EXCEPT !.product = FALSE],
        [Body(1, "W1") EXCEPT !.warehouseFacilityId = NULL]}
  \cup {[Body(1, "W1") EXCEPT !.expiryDate = e] : e \in {NULL, "soon"}}
  \cup {[Body(1, "W1") EXCEPT !.quantity = q] :
          q \in {Json("number", -2), Json("number", 3), Json("string", 2),
                 Json("string", 0), Json("text", 0), Json("boolean", 2),
                 Json("boolean", 0), Json("undefined", 0)}}
BoxesActors == {"admin", "wo1", "fo1", "fo2"}
BoxesFrom == {"W1", "W2", NULL}
BoxesTo == {"F1", "F2", "W2", NULL}

\* ----------------------------------------------------------------- actions
Apply(op, r) ==
  /\ box' = r.db.box
  /\ events' = r.db.events
  /\ resp' = [op |-> op, code |-> r.code, updated |-> r.updated, skipped |-> r.skipped]
  /\ UNCHANGED <<refs, inflight>>

Generate(cap, u, orderId, body) ==
  /\ inflight = {}
  /\ Cardinality(DOMAIN box) + body.quantity.twice \div 2 <= cap
  /\ LET p == GeneratePre(Db, u, orderId, body)
         r == generate(Db, u, orderId, body)
         w == GenerateUpserts(order, product, orderId, body)
     IN /\ order' = IF p.code = 0 THEN w.order ELSE order
        /\ product' = IF p.code = 0 THEN w.product ELSE product
        /\ box' = r.db.box
        /\ events' = r.db.events
        /\ resp' = [op |-> "generate", code |-> r.code, updated |-> r.updated,
                    skipped |-> r.skipped]
        /\ UNCHANGED <<facility, user, inflight>>

WarehouseReceive(u, boxUids) ==
  /\ inflight = {}
  /\ Apply("warehouse-receive", warehouseReceive(Db, u, boxUids))

Dispatch(u, boxUids, toFacilityCode) ==
  /\ inflight = {}
  /\ Apply("dispatch", dispatch(Db, u, boxUids, toFacilityCode))

FacilityReceive(u, boxUids) ==
  /\ inflight = {}
  /\ Apply("facility-receive", facilityReceive(Db, u, boxUids))

Dispense(u, boxUid) ==
  /\ inflight = {}
  /\ Apply("dispense", dispense(Db, u, boxUid))

BoxesDispatch(u, bodyUids, bodyTo, bodyFrom) ==
  /\ inflight = {}
  /\ Apply("boxes/dispatch", boxesDispatch(Db, u, bodyUids, bodyTo, bodyFrom))

BoxesFacilityReceive(u, bodyUids, bodyTo) ==
  /\ inflight = {}
  /\ Apply("boxes/facility-receive", boxesFacilityReceive(Db, u, bodyUids, bodyTo))

WarehouseReceive1(u, boxUids) ==
  /\ inflight = {}
  /\ Apply("warehouse-receive(1)", warehouseReceive1(Db, u, boxUids))

Dispatch1(u, boxUids, toFacilityCode) ==
  /\ inflight = {}
  /\ Apply("dispatch(1)", dispatch1(Db, u, boxUids, toFacilityCode))

FacilityReceive1(u, boxUids) ==
  /\ inflight = {}
  /\ Apply("facility-receive(1)", facilityReceive1(Db, u, boxUids))

Dispense1(u, boxUid) ==
  /\ inflight = {}
  /\ Apply("dispense(1)", dispense1(Db, u, boxUid))

ClinicalDispense(u, childId, boxUid) ==
  /\ inflight = {}
  /\ Apply("clinical/dispense", clinicalDispense(Db, u, childId, boxUid))

Init ==
  /\ facility = InitFacility
  /\ user = InitUser
  /\ order = InitOrder
  /\ product = [code \in {"RUTF"} |-> NULL]
  /\ box = <<>>
  /\ events = <<>>
  /\ resp = [op |-> "none", code |-> 0, updated |-> <<>>, skipped |-> <<>>]
  /\ inflight = {}

\* The transactions router.
Transactions(cap) ==
  \/ \E u \in Actors, l \in SentLists(cap) : WarehouseReceive(u, l)
  \/ \E u \in Actors, l \in SentLists(cap), c \in FacilityCodes : Dispatch(u, l, c)
  \/ \E u \in Actors, l \in SentLists(cap) : FacilityReceive(u, l)
  \/ \E u \in Actors, x \in SentUids(cap) \cup {NoUid} : Dispense(u, x)

\* orders.js
Orders(cap) ==
  \E u \in GenActors, o \in GenOrders, body \in GenBodies : Generate(cap, u, o, body)

\* boxes.js
Boxes(cap) ==
  \/ \E u \in BoxesActors, l \in SentLists(cap), t \in BoxesTo, f \in BoxesFrom :
       BoxesDispatch(u, l, t, f)
  \/ \E u \in BoxesActors, l \in SentLists(cap), t \in BoxesTo :
       BoxesFacilityReceive(u, l, t)

\* The first router of the transactions file.
Transactions1(cap) ==
  \/ \E u \in Actors, l \in SentLists(cap) : WarehouseReceive1(u, l)
  \/ \E u \in Actors, l \in SentLists(cap), c \in FacilityCodes : Dispatch1(u, l, c)
  \/ \E u \in Actors, l \in SentLists(cap) : FacilityReceive1(u, l)
  \/ \E u \in Actors, x \in SentUids(cap) \cup {NoUid} : Dispense1(u, x)

\* The transactions router and generate.
Next == Orders(MaxBoxes) \/ Transactions(MaxBoxes)

Spec == Init /\ [][Next]_vars

\* Every route the application mounts.
NextApp == Orders(MaxBoxesAll) \/ Transactions(MaxBoxesAll) \/ Boxes(MaxBoxesAll)

SpecApp == Init /\ [][NextApp]_vars

\* Every handler of the repository.
NextAll ==
  \/ NextApp
  \/ Transactions1(MaxBoxesAll)
  \/ \E u \in Actors, c \in DOMAIN Child \cup {"nochild"},
        x \in SentUids(MaxBoxesAll) \cup {NoUid} : ClinicalDispense(u, c, x)

SpecAll == Init /\ [][NextAll]_vars

\* ------------------------------------------------------ concurrent requests
\* A request runs its lookups and checks (Begin), other requests may commit,
\* and then its transaction runs on the rows it read (Commit).  A request
\* rejected before its transaction answers at once.
ConcActors == {"wo1", "fo1", "cl1"}
ConcCodes == {"F1"}
Rids == 1..MaxInflight

Begin(op, rid, u, p) ==
  /\ IF p.code # 0
     THEN /\ resp' = [op |-> op, code |-> p.code, updated |-> <<>>, skipped |-> <<>>]
          /\ UNCHANGED <<refs, box, events, inflight>>
     ELSE /\ inflight' = inflight \cup {[rid |-> rid, op |-> op, u |-> u, p |-> p]}
          /\ UNCHANGED <<refs, box, events, resp>>

Commit(r, op, o) ==
  /\ \A k \in 1..Len(r.p.boxes) : Len(events[r.p.boxes[k].id]) < MaxEvents
  /\ box' = o.db.box
  /\ events' = o.db.events
  /\ resp' = [op |-> op, code |-> o.code, updated |-> o.updated, skipped |-> o.skipped]
  /\ inflight' = inflight \ {r}
  /\ UNCHANGED refs

BeginDispatch(rid, u, boxUids, toFacilityCode) ==
  /\ rid \notin {r.rid : r \in inflight}
  /\ Begin("dispatch", rid, u, DispatchPre(Db, u, boxUids, toFacilityCode))

CommitDispatch(r) ==
  /\ r.op = "dispatch"
  /\ Commit(r, "dispatch", DispatchTx(Db, r.p, r.u))

BeginFacilityReceive(rid, u, boxUids) ==
  /\ rid \notin {r.rid : r \in inflight}
  /\ Begin("facility-receive", rid, u, FacilityReceivePre(Db, u, boxUids))

CommitFacilityReceive(r) ==
  /\ r.op = "facility-receive"
  /\ Commit(r, "facility-receive", FacilityReceiveTx(Db, r.p, r.u))

BeginDispense(rid, u, boxUid) ==
  /\ rid \notin {r.rid : r \in inflight}
  /\ Begin("dispense", rid, u, DispensePre(Db, u, boxUid))

CommitDispense(r) ==
  /\ r.op = "dispense"
  /\ Commit(r, "dispense", DispenseTx(Db, r.p, r.u))

BeginBoxesDispatch(rid, u, bodyUids, bodyTo, bodyFrom) ==
  /\ rid \notin {r.rid : r \in inflight}
  /\ Begin("boxes/dispatch", rid, u, BoxesDispatchPre(Db, u, bodyUids, bodyTo, bodyFrom))

CommitBoxesDispatch(r) ==
  /\ r.op = "boxes/dispatch"
  /\ Commit(r, "boxes/dispatch", BoxesDispatchTx(Db, r.p, r.u))

BeginBoxesFacilityReceive(rid, u, bodyUids, bodyTo) ==
  /\ rid \notin {r.rid : r \in inflight}
  /\ Begin("boxes/facility-receive", rid, u, BoxesFacilityReceivePre(Db, u, bodyUids, bodyTo))

CommitBoxesFacilityReceive(r) ==
  /\ r.op = "boxes/facility-receive"
  /\ Commit(r, "boxes/facility-receive", BoxesFacilityReceiveTx(Db, r.p, r.u))

\* Generate: the transaction counts the boxes of the order when it starts and
\* creates its rows later; the unique index decides when the rows are written.
BeginGenerate(rid, u, orderId, quantity, warehouseFacilityId) ==
  /\ rid \notin {r.rid : r \in inflight}
  /\ Cardinality(DOMAIN box) + quantity <= MaxBoxesAll
  /\ LET p == GeneratePre(Db, u, orderId, Body(quantity, warehouseFacilityId)) IN
     IF p.code # 0
     THEN /\ resp' = [op |-> "generate", code |-> p.code, updated |-> <<>>, skipped |-> <<>>]
          /\ UNCHANGED <<refs, box, events, inflight>>
     ELSE /\ inflight' = inflight \cup
                 {[rid |-> rid, op |-> "generate", u |-> u, p |-> p, orderId |-> orderId,
                   quantity |-> quantity, existingCount |-> GenerateCount(Db, orderId)]}
          /\ LET w == GenerateUpserts(order, product, orderId,
                                      Body(quantity, warehouseFacilityId))
             IN order' = w.order /\ product' = w.product
          /\ UNCHANGED <<facility, user, box, events, resp>>

CommitGenerate(r) ==
  /\ r.op = "generate"
  /\ Commit(r, "generate",
            GenerateInsert(Db, r.p, r.u, r.orderId, r.quantity, r.existingCount))

BeginClinicalDispense(rid, u, childId, boxUid) ==
  /\ rid \notin {r.rid : r \in inflight}
  /\ Begin("clinical/dispense", rid, u, ClinicalDispensePre(Db, u, childId, boxUid))

CommitClinicalDispense(r) ==
  /\ r.op = "clinical/dispense"
  /\ Commit(r, "clinical/dispense", ClinicalDispenseTx(Db, r.p, r.u))

NextConc ==
  \/ Orders(MaxBoxesAll)
  \/ \E rid \in Rids, u \in ConcActors, l \in UidLists(MaxBoxesAll), c \in ConcCodes :
       BeginDispatch(rid, u, l, c)
  \/ \E r \in inflight : CommitDispatch(r)
  \/ \E rid \in Rids, u \in ConcActors, l \in UidLists(MaxBoxesAll) :
       BeginFacilityReceive(rid, u, l)
  \/ \E r \in inflight : CommitFacilityReceive(r)
  \/ \E rid \in Rids, u \in ConcActors, x \in SentUids(MaxBoxesAll) : BeginDispense(rid, u, x)
  \/ \E r \in inflight : CommitDispense(r)
  \/ \E rid \in Rids, u \in ConcActors, l \in UidLists(MaxBoxesAll), t \in ConcCodes :
       BeginBoxesDispatch(rid, u, l, t, NULL)
  \/ \E r \in inflight : CommitBoxesDispatch(r)
  \/ \E rid \in Rids, u \in ConcActors, l \in UidLists(MaxBoxesAll) :
       BeginBoxesFacilityReceive(rid, u, l, NULL)
  \/ \E r \in inflight : CommitBoxesFacilityReceive(r)
  \/ \E rid \in Rids, u \in ConcActors, c \in DOMAIN Child, x \in SentUids(MaxBoxesAll) :
       BeginClinicalDispense(rid, u, c, x)
  \/ \E r \in inflight : CommitClinicalDispense(r)
  \/ \E rid \in Rids, q \in 0..MaxQty : BeginGenerate(rid, "wo1", "o1", q, "W1")
  \/ \E r \in inflight : CommitGenerate(r)

SpecConc == Init /\ [][NextConc]_vars

\* ------------------------------------------- concurrent generate requests
\* Generate requests that name a donor and a product name.  A request reads
\* the order, writes donorName and the product (orders.js:100-116) and then
\* starts its transaction; other requests may commit in between.  The record
\* of a request keeps the Order and Product tables as it found them.
NextGen ==
  \/ \E rid \in Rids, q \in 1..MaxQty, d \in {NULL, "donor", "other"}, n \in {"Plumpy", "Nut"} :
       LET body == [Body(q, "W1") EXCEPT !.donorName = d, !.productName = n]
           p == GeneratePre(Db, "wo1", "o1", body)
           w == GenerateUpserts(order, product, "o1", body)
       IN
       /\ rid \notin {r.rid : r \in inflight}
       /\ Cardinality(DOMAIN box) + q <= MaxBoxes
       /\ IF p.code # 0
          THEN /\ resp' = [op |-> "generate", code |-> p.code, updated |-> <<>>,
                           skipped |-> <<>>]
               /\ UNCHANGED <<refs, box, events, inflight>>
          ELSE /\ inflight' = inflight \cup
                      {[rid |-> rid, op |-> "generate", u |-> "wo1", p |-> p,
                        orderId |-> "o1", quantity |-> q,
                        existingCount |-> GenerateCount(Db, "o1"),
                        before |-> [order |-> order, product |-> product]]}
               /\ order' = w.order
               /\ product' = w.product
               /\ UNCHANGED <<facility, user, box, events, resp>>
  \/ \E r \in inflight : CommitGenerate(r)

SpecGen == Init /\ [][NextGen]_vars

\* ------------------------------------------------------ facility directory
\* A row of the Facility table is named by its code: the table has one row
\* per code and one per id.  A request names a facility by id, or by a code
\* that String(code).trim() cleans.
\* NoCode is the absent code, <<>> the absent or empty list.
NoCode == Raw(NULL)

\* normalizeType(type)
normalizeType(type) ==
  IF type = NULL THEN "FACILITY"
  ELSE IF type \in {"WAREHOUSE", " warehouse "} THEN "WAREHOUSE"
  ELSE "FACILITY"

\* The answer of a facility or user operation and the tables it leaves.
Answer(code, fac, usr, updated) ==
  [code |-> code, facility |-> fac, user |-> usr, updated |-> updated]
Refused(code) == Answer(code, facility, user, {})

\* prisma.facility.create / upsert: one more row.
facilityInsert(fac, id, row) ==
  [f \in DOMAIN fac \cup {id} |-> IF f = id THEN row ELSE fac[f]]

\* POST /api/facilities
createFacility(u, code, name, type, warehouseId) ==
  IF ~requireRole(u, {"SUPER_ADMIN"}) THEN Refused(403)
  ELSE IF code = NoCode \/ ~name THEN Refused(400)
  ELSE LET facilityType == normalizeType(type) IN
    IF facilityType = "FACILITY" /\ warehouseId # NULL /\ warehouseId \notin DOMAIN facility
    THEN Refused(400)
    ELSE IF facilityType = "FACILITY" /\ warehouseId # NULL
            /\ facility[warehouseId].type # "WAREHOUSE"
    THEN Refused(400)
    ELSE IF Trim(code) \in DOMAIN facility THEN Refused(500)
    ELSE Answer(201,
                facilityInsert(facility, Trim(code),
                  [type |-> facilityType,
                   warehouseId |-> IF facilityType = "FACILITY" THEN warehouseId ELSE NULL]),
                user, {Trim(code)})

\* The warehouse a link request names: by id when warehouseId is given,
\* otherwise by the trimmed code; NULL when no row is found.
findWarehouse(warehouseId, warehouseCode) ==
  LET key == IF warehouseId # NULL THEN warehouseId ELSE Trim(warehouseCode)
  IN IF key \in DOMAIN facility THEN key ELSE NULL

\* prisma.facility.updateMany({ where: { id: { in: ids } }, data: { warehouseId } })
facilityUpdateMany(fac, ids, wh) ==
  [f \in DOMAIN fac |-> IF f \in ids THEN [fac[f] EXCEPT !.warehouseId = wh] ELSE fac[f]]

\* PATCH /api/facilities/:facilityId/link-warehouse
linkWarehouse(u, facilityId, warehouseId, warehouseCode) ==
  IF ~requireRole(u, {"SUPER_ADMIN"}) THEN Refused(403)
  ELSE IF warehouseId = NULL /\ warehouseCode = NoCode THEN Refused(400)
  ELSE IF facilityId \notin DOMAIN facility THEN Refused(404)
  ELSE IF facility[facilityId].type # "FACILITY" THEN Refused(400)
  ELSE LET wh == findWarehouse(warehouseId, warehouseCode) IN
    IF wh = NULL THEN Refused(404)
    ELSE IF facility[wh].type # "WAREHOUSE" THEN Refused(400)
    ELSE Answer(200, facilityUpdateMany(facility, {facilityId}, wh), user, {facilityId})

\* The rows a bulk link finds: by facilityIds when that list is given and
\* not empty, otherwise by the trimmed facilityCodes.
bulkFacilities(facilityIds, facilityCodes) ==
  IF Len(facilityIds) > 0
  THEN {f \in DOMAIN facility : f \in Range(facilityIds)}
  ELSE {f \in DOMAIN facility : \E k \in 1..Len(facilityCodes) : f = Trim(facilityCodes[k])}

\* (nonFacilityNone: no row is set aside.)
nonFacilityNone(facilities) == {}
\* facilities.filter((f) => f.type !== "FACILITY")
nonFacility(facilities) == {f \in facilities : facility[f].type # "FACILITY"}

\* PATCH /api/facilities/bulk/link-warehouse
bulkLinkWarehouse(u, warehouseId, warehouseCode, facilityIds, facilityCodes) ==
  IF ~requireRole(u, {"SUPER_ADMIN"}) THEN Refused(403)
  ELSE IF warehouseId = NULL /\ warehouseCode = NoCode THEN Refused(400)
  ELSE LET hasIds == Len(facilityIds) > 0
           hasCodes == Len(facilityCodes) > 0 IN
    IF ~hasIds /\ ~hasCodes THEN Refused(400)
    ELSE LET wh == findWarehouse(warehouseId, warehouseCode) IN
      IF wh = NULL THEN Refused(404)
      ELSE IF facility[wh].type # "WAREHOUSE" THEN Refused(400)
      ELSE LET facilities == bulkFacilities(facilityIds, facilityCodes) IN
        IF nonFacility(facilities) # {} THEN Refused(400)
        ELSE Answer(200, facilityUpdateMany(facility, facilities, wh), user,
                    facilities)

\* (backfillWhereUnlinked: without the test of the type.)
backfillWhereUnlinked(f) == facility[f].warehouseId = NULL
\* where: { type: "FACILITY", warehouseId: null }
backfillWhere(f) == facility[f].type = "FACILITY" /\ facility[f].warehouseId = NULL

\* scripts/backfillWarehouse.js: main; code 1 is the exit status of a failure.
backfillWarehouse(warehouseCode) ==
  IF warehouseCode = NoCode THEN Refused(1)
  ELSE IF warehouseCode.pad \/ warehouseCode.uid \notin DOMAIN facility THEN Refused(1)
  ELSE LET ids == {f \in DOMAIN facility : backfillWhere(f)}
       IN Answer(0, facilityUpdateMany(facility, ids, warehouseCode.uid), user,
                 ids)

\* POST /admin/users: the facility is upserted by its code as it was sent,
\* then the user is created; a taken email makes user.create throw after the
\* upsert, and the handler does not catch it (code 0: no answer is sent).
createUser(u, email, role, facilityCode) ==
  IF ~requireRole(u, {"SUPER_ADMIN"}) THEN Refused(403)
  ELSE IF role # "SUPER_ADMIN" /\ facilityCode = NULL THEN Refused(400)
  ELSE LET fac == IF facilityCode = NULL \/ facilityCode \in DOMAIN facility
                  THEN facility
                  ELSE facilityInsert(facility, facilityCode,
                                      [type |-> "FACILITY", warehouseId |-> NULL])
       IN IF email \in DOMAIN user THEN Answer(0, fac, user, {})
          ELSE Answer(201, fac,
                      [e \in DOMAIN user \cup {email} |->
                         IF e = email THEN [role |-> role, facilityId |-> facilityCode]
                         ELSE user[e]],
                      {email})

ApplyFac(op, r) ==
  /\ facility' = r.facility
  /\ user' = r.user
  /\ resp' = [op |-> op, code |-> r.code,
              updated |-> CHOOSE s \in [1..Cardinality(r.updated) -> r.updated] :
                            Range(s) = r.updated,
              skipped |-> <<>>]
  /\ UNCHANGED <<order, product, box, events, inflight>>

\* The requests sent to the facility directory (a warehouse is named by id,
\* by code, or by both: the id is the one read), and one box of order o1 that
\* moves from W1 through the handlers of the transactions router.
NextFac ==
  \/ \E u \in {"admin", "wo1"},
        cn \in {<<NoCode, TRUE>>, <<Raw("X1"), FALSE>>, <<Raw("X1"), TRUE>>,
                <<Padded("X1"), TRUE>>, <<Raw("F1"), TRUE>>},
        type \in {NULL, "WAREHOUSE", " warehouse ", "FACILITY", "DEPOT"},
        w \in {NULL, "W1", "F1"} :
       ApplyFac("facilities", createFacility(u, cn[1], cn[2], type, w))
  \/ \E u \in {"admin", "wo1"}, f \in {"F1", "F2", "W2", "X1", "nowhere"},
        t \in {<<w, NoCode>> : w \in {NULL, "W1", "F1", "X1", "nowhere"}}
              \cup {<<NULL, c>> : c \in {Raw("X1"), Padded("W2"), Raw("W2"), Raw("F1"),
                                         Raw("nowhere")}}
              \cup {<<"W1", Raw("F1")>>} :
       ApplyFac("link-warehouse", linkWarehouse(u, f, t[1], t[2]))
  \/ \E u \in {"admin", "wo1"},
        t \in {<<"W1", NoCode>>, <<"X1", NoCode>>, <<"F1", NoCode>>, <<NULL, Raw("W2")>>,
               <<NULL, NoCode>>},
        ids \in {<<>>, <<"F1">>, <<"F1", "F2">>, <<"F2", "W2">>, <<"X1", "nowhere">>},
        codes \in {<<>>, <<Raw("F1"), Padded("F2")>>, <<Raw("W1"), Raw("F2")>>,
                   <<Raw("X1")>>} :
       ApplyFac("bulk/link-warehouse", bulkLinkWarehouse(u, t[1], t[2], ids, codes))
  \/ \E c \in {NoCode, Raw("X1"), Padded("W2"), Raw("W2"), Raw("F1"), Raw("nowhere")} :
       ApplyFac("backfillWarehouse", backfillWarehouse(c))
  \/ \E u \in {"admin", "wo1"}, email \in {"new1", "fo1"},
        n \in {<<"SUPER_ADMIN", NULL>>, <<"CLINICIAN", NULL>>, <<"CLINICIAN", "X1">>} :
       ApplyFac("admin/users", createUser(u, email, n[1], n[2]))
  \/ \E u \in {"wo1", "fo1"} : Generate(MaxBoxesAll, u, "o1", Body(1, "W1"))
  \/ \E u \in {"wo1", "fo1"} : WarehouseReceive(u, UidList({1}))
  \/ \E u \in {"wo1", "fo1"}, c \in {"F1", "X1"} : Dispatch(u, UidList({1}), c)
  \/ \E u \in {"wo1", "fo1"} : FacilityReceive(u, UidList({1}))
  \/ \E u \in {"wo1", "fo1"} : Dispense(u, SentUid(1))

SpecFac == Init /\ [][NextFac]_vars

\* ------------------------------- boxes.js: stock; scripts/reset_order.js
\* A stored expiryDate is a day and a time of day;
\* new Date(expiryDate).toISOString().slice(0, 10) is the day.
toISODate(expiryDate) == expiryDate.day

\* (stockWhereAll: without the where clause.)
stockWhereAll(b, facilityId) == TRUE
\* where: { currentFacilityId: facilityId }
stockWhere(b, facilityId) == b.currentFacilityId = facilityId

\* prisma.box.groupBy({ by, where, _count }) and rows = grouped.map(...): one
\* row per group, with the number of boxes in it.
stockRows(db, facilityId) ==
  LET at == {i \in DOMAIN db.box : stockWhere(db.box[i], facilityId)}
      stockKey(b) ==
        [productId |-> b.productId, batchNo |-> b.batchNo, expiryDate |-> b.expiryDate,
         status |-> b.status]
      keys == {stockKey(db.box[i]) : i \in at}
      grouped == CHOOSE s \in [1..Cardinality(keys) -> keys] : Range(s) = keys
  IN [k \in 1..Cardinality(keys) |->
        [product |-> grouped[k].productId,
         batchNo |-> grouped[k].batchNo,
         expiryDate |-> toISODate(grouped[k].expiryDate),
         status |-> grouped[k].status,
         count |-> Cardinality({i \in at : stockKey(db.box[i]) = grouped[k]})]]

\* rows.reduce((acc, r) => acc + r.count, 0)
RECURSIVE stockTotals(_)
stockTotals(rows) ==
  IF rows = <<>> THEN 0
  ELSE stockTotals(SubSeq(rows, 1, Len(rows) - 1)) + rows[Len(rows)].count

\* (stockForbiddenNever: every user may ask for every facility.)
stockForbiddenNever(u, facilityId) == FALSE
\* req.user.role !== "SUPER_ADMIN" && String(req.user.facilityId) !== String(facilityId)
stockForbidden(u, facilityId) ==
  user[u].role # "SUPER_ADMIN" /\ user[u].facilityId # facilityId

\* GET /stock/facility/:facilityId; the catch answers 500 for a facility that
\* does not exist.
stock(db, u, facilityId) ==
  IF stockForbidden(u, facilityId)
  THEN [op |-> "stock", by |-> u, facilityId |-> facilityId, code |-> 403,
        rows |-> <<>>, totals |-> 0]
  ELSE IF ~assertFacilityExists(facilityId)
  THEN [op |-> "stock", by |-> u, facilityId |-> facilityId, code |-> 500,
        rows |-> <<>>, totals |-> 0]
  ELSE LET rows == stockRows(db, facilityId)
       IN [op |-> "stock", by |-> u, facilityId |-> facilityId, code |-> 200,
           rows |-> rows, totals |-> stockTotals(rows)]

\* (resetWhereAll: the boxes of every order.)
resetWhereAll(b, orderId) == TRUE
\* where: { orderId: order.id }, and for the events where: { box: { orderId } }
resetWhere(b, orderId) == b.orderId = orderId

\* scripts/reset_order.js: main; code 1 is the exit status of a failure.
resetOrder(ord, db, orderNumber, donorName) ==
  LET found == {o \in DOMAIN ord : ord[o].orderNumber = orderNumber} IN
  IF orderNumber = NULL \/ found = {}
  THEN [code |-> 1, order |-> ord, db |-> db]
  ELSE LET o == CHOOSE x \in found : TRUE
           kept == {i \in DOMAIN db.box : ~resetWhere(db.box[i], o)}
       IN [code |-> 0,
           order |-> IF donorName = NULL THEN ord
                     ELSE [ord EXCEPT ![o].donorName = donorName],
           db |-> [box |-> [i \in kept |-> db.box[i]],
                   events |-> [i \in kept |-> db.events[i]]]]

\* The tables the stock query and the reset script run on: up to MaxBoxes
\* boxes of two orders, each where generate and the transfer handlers leave a
\* box, with the events they wrote for it.
InitStock ==
  LET places ==
        <<[status |-> "IN_WAREHOUSE", currentFacilityId |-> "W1"],
          [status |-> "IN_WAREHOUSE", currentFacilityId |-> "W2"],
          [status |-> "IN_TRANSIT", currentFacilityId |-> NULL],
          [status |-> "IN_FACILITY", currentFacilityId |-> "F1"],
          [status |-> "DISPENSED", currentFacilityId |-> "F1"]>>
      ledger(place) ==
        LET w == places[IF place <= 2 THEN place ELSE 1].currentFacilityId
            all == <<Event("QR_CREATED", "wo1", NULL, w),
                     Event("WAREHOUSE_RECEIVE", "wo1", NULL, w),
                     Event("DISPATCH", "wo1", "W1", "F1"),
                     Event("FACILITY_RECEIVE", "fo1", NULL, "F1"),
                     Event("DISPENSE", "cl1", "F1", NULL)>>
        IN SubSeq(all, 1, IF place <= 2 THEN 2 ELSE place)
  IN
  /\ facility = InitFacility
  /\ user = InitUser
  /\ order = [o \in {"o1", "o2"} |->
                [orderNumber |-> IF o = "o1" THEN "ORD" ELSE "ORD2", donorName |-> NULL]]
  /\ product = [code \in {"RUTF"} |-> "Plumpy"]
  /\ \E n \in 0..MaxBoxes :
       \E t \in [1..n -> {"o1", "o2"} \X {"B1", "B2"} \X {0, 10} \X (1..Len(places))] :
         /\ box = [i \in 1..n |->
                     [boxUid |-> BoxUidOf(order[t[i][1]].orderNumber,
                                          Cardinality({j \in 1..i : t[j][1] = t[i][1]})),
                      orderId |-> t[i][1],
                      productId |-> "P1",
                      batchNo |-> t[i][2],
                      expiryDate |-> [day |-> "2027-01-31", time |-> t[i][3]],
                      status |-> places[t[i][4]].status,
                      currentFacilityId |-> places[t[i][4]].currentFacilityId]]
         /\ events = [i \in 1..n |-> ledger(t[i][4])]
  /\ resp = [op |-> "none", code |-> 0]
  /\ inflight = {}

NextStock ==
  \/ \E u \in {"admin", "wo1", "fo1", "fo2"}, f \in {"W1", "F1", "F2", "nowhere"} :
       /\ resp' = stock(Db, u, f)
       /\ UNCHANGED <<facility, user, order, product, box, events, inflight>>
  \/ \E orderNumber \in {"ORD", "ORD2", "ORD3", NULL}, donorName \in {NULL, "donor"} :
       LET r == resetOrder(order, Db, orderNumber, donorName) IN
         /\ order' = r.order
         /\ box' = r.db.box
         /\ events' = r.db.events
         /\ resp' = [op |-> "reset_order", code |-> r.code, orderNumber |-> orderNumber]
         /\ UNCHANGED <<facility, user, product, inflight>>

SpecStock == InitStock /\ [][NextStock]_vars

\* ------------------------------------------- reset_order.js beside transfers
\* The script is not one transaction: its two deleteMany calls are two
\* statements, and a request of the application can commit between them.
\* prisma.boxEvent.deleteMany({ where: { box: { orderId: order.id } } })
ResetDeleteEvents(orderNumber) ==
  /\ inflight = {}
  /\ \E o \in DOMAIN order :
       /\ order[o].orderNumber = orderNumber
       /\ events' = [i \in DOMAIN box |-> IF resetWhere(box[i], o) THEN <<>> ELSE events[i]]
       /\ inflight' = {[rid |-> 0, op |-> "reset_order", orderId |-> o,
                        orderNumber |-> orderNumber]}
  /\ UNCHANGED <<refs, box, resp>>

\* prisma.box.deleteMany({ where: { orderId: order.id } }): BoxEvent_boxId_fkey
\* is ON DELETE RESTRICT, so the statement fails, and deletes nothing, when a
\* row of BoxEvent still names one of the boxes; main().catch exits with 1.
ResetDeleteBoxes(r) ==
  LET kept == {i \in DOMAIN box : ~resetWhere(box[i], r.orderId)}
      restricted == \E i \in DOMAIN box \ kept : events[i] # <<>>
  IN
  /\ r.op = "reset_order"
  /\ inflight' = inflight \ {r}
  /\ resp' = [op |-> "reset_order", code |-> IF restricted THEN 1 ELSE 0,
              orderNumber |-> r.orderNumber]
  /\ IF restricted THEN UNCHANGED <<box, events>>
     ELSE /\ box' = [i \in kept |-> box[i]]
          /\ events' = [i \in kept |-> events[i]]
  /\ UNCHANGED refs

NextReset ==
  \/ \E orderNumber \in {"ORD", "ORD2"} : ResetDeleteEvents(orderNumber)
  \/ \E r \in inflight : ResetDeleteBoxes(r)
  \/ \E l \in UidLists(MaxBoxes) : Apply("dispatch", dispatch(Db, "wo1", l, "F1"))
  \/ \E l \in UidLists(MaxBoxes) : Apply("facility-receive", facilityReceive(Db, "fo1", l))
  \/ \E x \in SentUids(MaxBoxes) : Apply("dispense", dispense(Db, "cl1", x))

SpecReset == InitStock /\ [][NextReset]_vars

\* --------------------------------------------------------------- properties
StatusIndex(st) == CHOOSE k \in 1..Len(Status) : Status[k] = st

\* The rows a boxUids list names, and whether it names a row for every entry.
Named(db, l) == {b \in DOMAIN db.box : \E k \in 1..Len(l) : Trim(l[k]) = db.box[b].boxUid}
AllFound(db, l) == \A k \in 1..Len(l) : \E b \in DOMAIN db.box : Trim(l[k]) = db.box[b].boxUid

EventTypes(b) == [k \in 1..Len(events[b]) |-> events[b][k].type]
CountType(b, type) == Cardinality({k \in 1..Len(events[b]) : events[b][k].type = type})
LastEvent(evs) == evs[Len(evs)]
OneMore(after, before) ==
  Len(after) = Len(before) + 1 /\ SubSeq(after, 1, Len(before)) = before

NonAdmins == {u \in UserIds : user[u].role # "SUPER_ADMIN"}

\* C1: whenever a request handled in one piece (any handler of the
\* repository) changes the status of a box, the new status is the immediate
\* successor of the old one in CREATED, IN_WAREHOUSE, IN_TRANSIT, IN_FACILITY,
\* DISPENSED: no status is skipped and none is re-entered.
C1_ImmediateSuccessor ==
  [][\A b \in DOMAIN box :
       box'[b].status # box[b].status
         => StatusIndex(box'[b].status) = StatusIndex(box[b].status) + 1]_vars

\* A box that went through the whole chain.
C1_Witness ==
  \E b \in DOMAIN box :
    /\ box[b].status = "DISPENSED"
    /\ EventTypes(b) = <<"QR_CREATED", "WAREHOUSE_RECEIVE", "DISPATCH",
                         "FACILITY_RECEIVE", "DISPENSE">>

\* C2: a bulk warehouse-receive, dispatch or facility-receive in which some
\* listed box is missing or fails the precondition of the operation changes
\* no Box row and appends no BoxEvent, for any box of the request.
C2_AllOrNothing ==
  \A u \in UserIds, l \in UidLists(MaxBoxes) :
    LET named == Named(Db, l)
        my == user[u].facilityId
        failsWR == \E b \in named :
                     ~(\/ box[b].status = "CREATED"
                       \/ box[b].status = "IN_WAREHOUSE" /\ box[b].currentFacilityId = my)
        failsD == \E b \in named :
                    box[b].status # "IN_WAREHOUSE" \/ box[b].currentFacilityId # my
        failsFR == \E b \in named :
                     \/ box[b].status # "IN_TRANSIT"
                     \/ u \in NonAdmins /\ LastDispatch(Db, b).toFacilityId # my
    IN /\ (~AllFound(Db, l) \/ failsWR) => warehouseReceive(Db, u, l).db = Db
       /\ (~AllFound(Db, l) \/ failsD)
            => \A c \in FacilityCodes : dispatch(Db, u, l, c).db = Db
       /\ (~AllFound(Db, l) \/ failsFR) => facilityReceive(Db, u, l).db = Db

\* A dispatch of two boxes, one in the officer's warehouse and one already in
\* transit, was rejected and both are as they were.
C2_Witness ==
  /\ resp.op = "dispatch" /\ resp.code = 400
  /\ DOMAIN box = {1, 2}
  /\ box[1].status = "IN_WAREHOUSE" /\ box[1].currentFacilityId = "W1"
  /\ Len(events[1]) = 2
  /\ box[2].status = "IN_TRANSIT"
  /\ dispatch(Db, "wo1", UidList({1, 2}), "F1") = Rejected(400, Db)
  /\ dispatch(Db, "wo1", UidList({1}), "F1").code = 200

\* C3: with concurrent requests, a box is dispatched at most once and
\* facility-received at most once: of two concurrent dispatches (or two
\* concurrent facility-receives) of one box at most one succeeds, so its
\* ledger holds at most one DISPATCH and at most one FACILITY_RECEIVE event.
C3_AtMostOneDispatch ==
  \A b \in DOMAIN box :
    CountType(b, "DISPATCH") <= 1 /\ CountType(b, "FACILITY_RECEIVE") <= 1

\* Both dispatches of one box answered 200 and each appended its event.
C3_TwoDispatches ==
  \E b \in DOMAIN box :
    /\ EventTypes(b) = <<"QR_CREATED", "WAREHOUSE_RECEIVE", "DISPATCH", "DISPATCH">>
    /\ resp.op = "dispatch" /\ resp.code = 200
    /\ inflight = {}

\* C4: under any interleaving of concurrent requests the status of a box
\* never moves backward in the chain.
C4_NeverBackward ==
  [][\A b \in DOMAIN box :
       StatusIndex(box'[b].status) >= StatusIndex(box[b].status)]_vars

\* A box received at its facility is in transit again.
C4_BackInTransit ==
  \E b \in DOMAIN box :
    /\ box[b].status = "IN_TRANSIT"
    /\ \E j, k \in 1..Len(events[b]) :
         j < k /\ events[b][j].type = "FACILITY_RECEIVE" /\ events[b][k].type = "DISPATCH"

C6_WarehouseReceiveIdempotent ==
  \A u \in UserIds, l \in UidLists(MaxBoxes) \ {<<>>} :
    LET named == Named(Db, l)
        my == user[u].facilityId
        r1 == warehouseReceive(Db, u, l)
        r2 == warehouseReceive(r1.db, u, l)
    IN ( /\ user[u].role \in {"SUPER_ADMIN", "WAREHOUSE_OFFICER"}
         /\ my \in DOMAIN facility
         /\ facility[my].type = "WAREHOUSE"
         /\ AllFound(Db, l)
         /\ \A b \in named : box[b].status = "IN_WAREHOUSE" /\ box[b].currentFacilityId = my )
       => /\ r1 = Outcome(200, Db, <<>>, r1.skipped)
          /\ Range(r1.skipped) = {Trim(l[k]) : k \in 1..Len(l)}
          /\ Len(r1.skipped) = Len(l)
          /\ r2 = r1

\* A warehouse-receive of a generated box answered 200 with the box skipped.
C6_Witness ==
  \E b \in DOMAIN box :
    /\ resp.op = "warehouse-receive" /\ resp.code = 200
    /\ box[b].boxUid \in Range(resp.skipped)
    /\ resp.updated = <<>>
    /\ box[b].status = "IN_WAREHOUSE"
    /\ EventTypes(b) = <<"QR_CREATED", "WAREHOUSE_RECEIVE">>

C8_LocationNullIffInTransit ==
  \A b \in DOMAIN box :
    (box[b].currentFacilityId = NULL) <=> (box[b].status \in {"IN_TRANSIT", "CREATED"})

\* A box in transit that is still located somewhere.
C8_InTransitSomewhere ==
  \E b \in DOMAIN box :
    /\ box[b].status = "IN_TRANSIT"
    /\ box[b].currentFacilityId \in FacilityIds
    /\ CountType(b, "DISPATCH") = 1

\* C9: a successful dispatch, through any of the three dispatch handlers,
\* leaves every box it names IN_TRANSIT with no currentFacilityId.
C9_DispatchedIsNowhere ==
  \A u \in UserIds, l \in UidLists(MaxBoxesAll), c \in FacilityCodes :
    LET named == Named(Db, l)
        nowhere(r) == r.code = 200 =>
                        \A b \in named : /\ r.db.box[b].status = "IN_TRANSIT"
                                         /\ r.db.box[b].currentFacilityId = NULL
    IN /\ nowhere(dispatch(Db, u, l, c))
       /\ nowhere(dispatch1(Db, u, l, c))
       /\ \A f \in BoxesFrom : nowhere(boxesDispatch(Db, u, l, c, f))

\* The first router answered 200 to a dispatch and the box, IN_TRANSIT, is
\* still counted in the warehouse.
C9_StillInWarehouse ==
  \E b \in DOMAIN box :
    /\ resp.op = "dispatch(1)" /\ resp.code = 200
    /\ box[b].status = "IN_TRANSIT"
    /\ box[b].currentFacilityId = "W1"
    /\ LastEvent(events[b]).type = "DISPATCH"

\* C10: a dispatch, through the transactions router or boxes.js, succeeds
\* only for boxes that are IN_WAREHOUSE with currentFacilityId the acting
\* user's facility, whatever the request body contains.
C10_DispatchOnlyOwnWarehouse ==
  \A u \in UserIds, l \in UidLists(MaxBoxesAll), c \in FacilityCodes :
    LET named == Named(Db, l)
        own(r) == r.code = 200 =>
                    \A b \in named : /\ box[b].status = "IN_WAREHOUSE"
                                     /\ box[b].currentFacilityId = user[u].facilityId
    IN /\ own(dispatch(Db, u, l, c))
       /\ \A f \in BoxesFrom : own(boxesDispatch(Db, u, l, c, f))

\* The officer of W1 dispatched a box out of W2.
C10_DispatchedFromOtherWarehouse ==
  \E b \in DOMAIN box :
    /\ resp.op = "boxes/dispatch" /\ resp.code = 200
    /\ box[b].status = "IN_TRANSIT"
    /\ EventTypes(b) = <<"QR_CREATED", "WAREHOUSE_RECEIVE", "DISPATCH">>
    /\ LastEvent(events[b]).performedByUserId = "wo1"
    /\ LastEvent(events[b]).fromFacilityId = "W2"

\* C11: every DISPATCH event of the ledger has fromFacilityId a facility of
\* type WAREHOUSE and toFacilityId a facility of type FACILITY (a dispatch from
\* a source that is not a warehouse or to a destination that is a warehouse
\* is rejected), whichever dispatch route of the application wrote it.
C11_DispatchWarehouseToFacility ==
  \A b \in DOMAIN box : \A k \in 1..Len(events[b]) :
    events[b][k].type = "DISPATCH"
      => /\ events[b][k].fromFacilityId \in DOMAIN facility
         /\ facility[events[b][k].fromFacilityId].type = "WAREHOUSE"
         /\ events[b][k].toFacilityId \in DOMAIN facility
         /\ facility[events[b][k].toFacilityId].type = "FACILITY"

\* boxes.js answered 200 to a dispatch whose destination is the warehouse W2;
\* the transactions router rejects the same destination.
C11_DispatchedToWarehouse ==
  \E b \in DOMAIN box :
    /\ resp.op = "boxes/dispatch" /\ resp.code = 200
    /\ box[b].status = "IN_TRANSIT"
    /\ LastEvent(events[b]).type = "DISPATCH"
    /\ LastEvent(events[b]).toFacilityId = "W2"
    /\ facility["W2"].type = "WAREHOUSE"

\* C12: a dispatch by an actor who is not SUPER_ADMIN, through the
\* transactions router or boxes.js, succeeds only if the warehouseId of the
\* destination facility is the actor's own facility; to a destination that is
\* unlinked or linked to another warehouse it is rejected and no Box row or
\* BoxEvent changes.
C12_DispatchOnlyToLinkedFacility ==
  \A u \in NonAdmins, l \in UidLists(MaxBoxesAll), c \in FacilityCodes :
    LET linked == /\ c \in DOMAIN facility
                  /\ facility[c].warehouseId # NULL
                  /\ facility[c].warehouseId = user[u].facilityId
        ok(r) == IF r.code = 200 THEN linked ELSE r.db = Db
    IN /\ ok(dispatch(Db, u, l, c))
       /\ \A f \in BoxesFrom : ok(boxesDispatch(Db, u, l, c, f))

\* The officer of W1 dispatched a box of W1 to F2, a facility of W2, through
\* boxes.js; the transactions router answers 403 to the same officer and
\* destination.
C12_DispatchedToForeignFacility ==
  \E b \in DOMAIN box :
    /\ resp.op = "boxes/dispatch" /\ resp.code = 200
    /\ box[b].status = "IN_TRANSIT"
    /\ LastEvent(events[b]) =
         [type |-> "DISPATCH", performedByUserId |-> "wo1",
          fromFacilityId |-> "W1", toFacilityId |-> "F2"]
    /\ facility["F2"].warehouseId = "W2"
    /\ DispatchPre(Db, "wo1", <<Raw(box[b].boxUid)>>, "F2").code = 403

C14_DispenseOnceFromOwnFacility ==
  \A u \in UserIds, x \in SentUids(MaxBoxes) :
    LET r == dispense(Db, u, x) IN
    IF r.code = 200
    THEN /\ \E b \in DOMAIN box :
              /\ box[b].boxUid = Trim(x)
              /\ box[b].status = "IN_FACILITY"
              /\ box[b].currentFacilityId = user[u].facilityId
              /\ r.db.box[b] = [box[b] EXCEPT !.status = "DISPENSED"]
              /\ OneMore(r.db.events[b], events[b])
              /\ LastEvent(r.db.events[b]).type = "DISPENSE"
              /\ \A o \in DOMAIN box \ {b} :
                   r.db.box[o] = box[o] /\ r.db.events[o] = events[o]
         /\ \A v \in UserIds :
              LET again == dispense(r.db, v, x) IN
              again.code # 200 /\ again.db = r.db
    ELSE r.db = Db

\* A dispensed box with its one DISPENSE event, and the dispense that came
\* after it answered 400 and changed nothing.
C14_Witness ==
  \E b \in DOMAIN box :
    /\ resp.op = "dispense" /\ resp.code = 400
    /\ box[b].status = "DISPENSED"
    /\ box[b].currentFacilityId = "F1"
    /\ CountType(b, "DISPENSE") = 1
    /\ LastEvent(events[b]).type = "DISPENSE"
    /\ dispense(Db, "cl1", Raw(box[b].boxUid)) = Rejected(400, Db)

\* C15: under every interleaving of concurrent dispense requests for one box,
\* through the dispense route of the transactions router or the clinical
\* dispense route, at most one request succeeds: the ledger of a box holds at
\* most one DISPENSE event.
C15_AtMostOneDispense ==
  \A b \in DOMAIN box : CountType(b, "DISPENSE") <= 1

\* Every request has answered and the ledger of a DISPENSED box ends with two
\* DISPENSE events.
C15_TwoDispenses ==
  \E b \in DOMAIN box :
    /\ inflight = {}
    /\ box[b].status = "DISPENSED"
    /\ EventTypes(b) = <<"QR_CREATED", "WAREHOUSE_RECEIVE", "DISPATCH",
                         "FACILITY_RECEIVE", "DISPENSE", "DISPENSE">>
    /\ resp.code \in {200, 201}

\* C16: a valid generate of N boxes for an order that has k boxes succeeds and
\* creates exactly N Box rows, with boxUid {orderNumber}-{k+1} ..
\* {orderNumber}-{k+N}, status IN_WAREHOUSE and currentFacilityId the given
\* warehouse, each with exactly the events QR_CREATED and WAREHOUSE_RECEIVE,
\* and changes no other row; after any sequence of generate calls the m boxes
\* of an order carry exactly the sequence numbers 1..m.
C16_GenerateSequence ==
  /\ \A o \in OrderIds :
       LET mine == {b \in DOMAIN box : box[b].orderId = o} IN
       /\ {box[b].boxUid.seq : b \in mine} = 1..Cardinality(mine)
       /\ \A b \in mine : box[b].boxUid.order = order[o].orderNumber
  /\ \A u \in UserIds, o \in OrderIds, n \in 1..MaxQty, w \in FacilityIds :
       LET r == generate(Db, u, o, Body(n, w))
           k == Cardinality({b \in DOMAIN box : box[b].orderId = o})
           created == DOMAIN r.db.box \ DOMAIN box
       IN user[u].role \in {"SUPER_ADMIN", "WAREHOUSE_OFFICER"} =>
            /\ r.code = 200
            /\ Cardinality(created) = n
            /\ {r.db.box[b].boxUid : b \in created}
                 = {BoxUidOf(order[o].orderNumber, k + i) : i \in 1..n}
            /\ \A b \in created :
                 /\ r.db.box[b].orderId = o
                 /\ r.db.box[b].status = "IN_WAREHOUSE"
                 /\ r.db.box[b].currentFacilityId = w
                 /\ [j \in 1..Len(r.db.events[b]) |-> r.db.events[b][j].type]
                      = <<"QR_CREATED", "WAREHOUSE_RECEIVE">>
                 /\ \A j \in 1..Len(r.db.events[b]) : r.db.events[b][j].toFacilityId = w
            /\ \A b \in DOMAIN box : r.db.box[b] = box[b] /\ r.db.events[b] = events[b]

\* Two generate calls of one box each, the first at W1 and the second at W2:
\* the boxes are ORD-1 and ORD-2.
C16_Witness ==
  /\ resp.op = "generate" /\ resp.code = 200
  /\ DOMAIN box = {1, 2}
  /\ box[1].boxUid = BoxUidOf("ORD", 1) /\ box[1].currentFacilityId = "W1"
  /\ box[2].boxUid = BoxUidOf("ORD", 2) /\ box[2].currentFacilityId = "W2"
  /\ box[2].status = "IN_WAREHOUSE"
  /\ EventTypes(2) = <<"QR_CREATED", "WAREHOUSE_RECEIVE">>

\* C17: boxUid is unique among the Box rows in every reachable state, also
\* when generate requests of one order run concurrently and count the same
\* number of existing boxes; a generate whose creates meet an existing boxUid
\* fails as a whole (500) and leaves no Box row and no BoxEvent behind, and
\* one whose boxUids are all free creates its rows.
C17_BoxUidUnique ==
  /\ \A a, b \in DOMAIN box : a # b => box[a].boxUid # box[b].boxUid
  /\ \A r \in inflight :
       r.op = "generate" =>
         LET o == GenerateInsert(Db, r.p, r.u, r.orderId, r.quantity, r.existingCount)
             planned == {BoxUidOf(order[r.orderId].orderNumber, r.existingCount + i) :
                           i \in 1..r.quantity}
         IN IF \E j \in DOMAIN box : box[j].boxUid \in planned
            THEN o = Rejected(500, Db)
            ELSE /\ o.code = 200
                 /\ {o.db.box[j].boxUid : j \in DOMAIN o.db.box \ DOMAIN box} = planned

\* Two generates counted no box; the first created ORD-1, the second failed
\* with 500 and left nothing: one box, with its two events.
C17_Witness ==
  /\ resp.op = "generate" /\ resp.code = 500
  /\ inflight = {}
  /\ DOMAIN box = {1}
  /\ box[1].boxUid = BoxUidOf("ORD", 1)
  /\ EventTypes(1) = <<"QR_CREATED", "WAREHOUSE_RECEIVE">>

\* C18: a generate request that lacks a field, whose quantity is not a
\* positive integer (sent as a number or spelled by a string), whose expiry
\* date does not parse, or whose order or facility does not exist is rejected
\* with an error and creates no Box and no BoxEvent.
C18_InvalidGenerateRejected ==
  \A u \in UserIds, o \in GenOrders, body \in GenBodies :
    LET q == body.quantity
        positiveInteger == q.type \in {"number", "string"} /\ q.twice % 2 = 0 /\ q.twice > 0
        invalid == \/ ~body.product
                   \/ body.expiryDate = NULL
                   \/ body.warehouseFacilityId = NULL
                   \/ q.type = "undefined"
                   \/ ~positiveInteger
                   \/ body.expiryDate # "2027-01-31"
                   \/ o \notin DOMAIN order
                   \/ body.warehouseFacilityId \notin DOMAIN facility
        r == generate(Db, u, o, body)
    IN invalid => r.code \in {400, 403, 404} /\ r.db = Db

\* After a first box, the request whose quantity is the boolean true is
\* answered 200 and creates a second box, while the quantity 1.5 is refused.
C18_BooleanQuantityAccepted ==
  LET r == generate(Db, "wo1", "o1", [Body(1, "W1") EXCEPT !.quantity = Json("boolean", 2)])
      h == generate(Db, "wo1", "o1", [Body(1, "W1") EXCEPT !.quantity = Json("number", 3)])
  IN /\ resp.op = "generate" /\ resp.code = 200
     /\ DOMAIN box = {1}
     /\ r.code = 200
     /\ DOMAIN r.db.box = {1, 2}
     /\ r.db.box[2].status = "IN_WAREHOUSE"
     /\ h = Rejected(400, Db)

\* C19: when an identifier of a bulk request names no box, the whole batch
\* fails: the request is not answered 200, no Box row changes and no event is
\* appended, for every bulk handler of the repository (both routers of the
\* transactions file and boxes.js); the identifiers reported missing are
\* exactly the distinct trimmed identifiers that name no box.
C19_MissingFailsBatch ==
  \A u \in UserIds, l \in UidLists(MaxBoxesAll) :
    LET failed(r) == r.code # 200 /\ r.db = Db
        unresolved == {Trim(l[k]) : k \in 1..Len(l)} \ {box[b].boxUid : b \in DOMAIN box}
    IN ~AllFound(Db, l) =>
         /\ getBoxesOrThrow(Db, l).thrown
         /\ getBoxesOrThrow(Db, l).missing = unresolved
         /\ failed(warehouseReceive(Db, u, l))
         /\ failed(facilityReceive(Db, u, l))
         /\ failed(warehouseReceive1(Db, u, l))
         /\ failed(facilityReceive1(Db, u, l))
         /\ \A c \in FacilityCodes :
              /\ failed(dispatch(Db, u, l, c))
              /\ failed(dispatch1(Db, u, l, c))
              /\ \A f \in BoxesFrom : failed(boxesDispatch(Db, u, l, c, f))
         /\ \A t \in BoxesTo : failed(boxesFacilityReceive(Db, u, l, t))

\* The only box, ORD-1, is in transit to F1.  The first router answers 200 to
\* a facility-receive of ORD-1 and ORD-2, which does not exist, and receives
\* ORD-1; the exported router rejects the same list.
C19_PartialBatchApplied ==
  LET l == UidList({1, 2})
      r == facilityReceive1(Db, "fo1", l)
  IN /\ DOMAIN box = {1}
     /\ box[1].status = "IN_TRANSIT"
     /\ LastDispatch(Db, 1).toFacilityId = "F1"
     /\ ~AllFound(Db, l)
     /\ r.code = 200
     /\ r.db.box[1].status = "IN_FACILITY"
     /\ Len(r.db.events[1]) = Len(events[1]) + 1
     /\ facilityReceive(Db, "fo1", l) = Rejected(400, Db)

\* C20: a bulk request whose list repeats an identifier or pads one with
\* whitespace has the outcome and the effect of the request with the distinct
\* trimmed identifiers, for every bulk handler of the repository: the same
\* status, the same Box rows and the same ledgers, so each named box moves
\* once and gets one event, and a repetition alone never fails the batch.
C20_RepeatedOrPaddedSameAsClean ==
  \A u \in UserIds, l \in RepeatedLists(MaxBoxesAll) :
    LET uids == Dedupe([k \in 1..Len(l) |-> Trim(l[k])])
        clean == [k \in 1..Len(uids) |-> Raw(uids[k])]
        same(r, rc) == r.code = rc.code /\ r.db = rc.db
    IN /\ same(warehouseReceive(Db, u, l), warehouseReceive(Db, u, clean))
       /\ same(facilityReceive(Db, u, l), facilityReceive(Db, u, clean))
       /\ same(warehouseReceive1(Db, u, l), warehouseReceive1(Db, u, clean))
       /\ same(facilityReceive1(Db, u, l), facilityReceive1(Db, u, clean))
       /\ \A c \in FacilityCodes :
            /\ same(dispatch(Db, u, l, c), dispatch(Db, u, clean, c))
            /\ same(dispatch1(Db, u, l, c), dispatch1(Db, u, clean, c))
            /\ \A f \in BoxesFrom :
                 same(boxesDispatch(Db, u, l, c, f), boxesDispatch(Db, u, clean, c, f))
       /\ \A t \in BoxesTo :
            same(boxesFacilityReceive(Db, u, l, t), boxesFacilityReceive(Db, u, clean, t))

\* ORD-1 is in the warehouse W1.  The first router answered 404 to a
\* warehouse-receive: it does so for the list that names ORD-1 twice and
\* answers 200 for ORD-1 alone; the exported router answers 200 to both.
C20_RepeatedIdentifierFails ==
  LET twice == <<SentUid(1), SentUid(1)>>
      once == <<SentUid(1)>>
  IN /\ resp.op = "warehouse-receive(1)" /\ resp.code = 404
     /\ DOMAIN box = {1}
     /\ box[1].status = "IN_WAREHOUSE" /\ box[1].currentFacilityId = "W1"
     /\ warehouseReceive1(Db, "wo1", twice) = Rejected(404, Db)
     /\ warehouseReceive1(Db, "wo1", once).code = 200
     /\ warehouseReceive(Db, "wo1", twice).code = 200
     /\ warehouseReceive(Db, "wo1", once).code = 200

\* C21: the ledger is append-only.  No request of any handler of the
\* repository, whether it is answered with success or with an error, removes
\* a Box row, removes a BoxEvent or changes one: the events of a box before a
\* request are a prefix of its events after it.
C21_LedgerAppendOnly ==
  [][\A b \in DOMAIN box :
       /\ b \in DOMAIN box'
       /\ Len(events'[b]) >= Len(events[b])
       /\ SubSeq(events'[b], 1, Len(events[b])) = events[b]]_vars

\* A box with the five events of a whole life, after a request that was
\* refused: the ledger still starts with the two events of generate.
C21_Witness ==
  \E b \in DOMAIN box :
    /\ resp.code \in {400, 403, 404}
    /\ Len(events[b]) = 5
    /\ events[b][1].type = "QR_CREATED"
    /\ events[b][2].type = "WAREHOUSE_RECEIVE"
    /\ events[b][5].type = "DISPENSE"

\* C22: the destination check of facility-receive is permissive for
\* administrators, in the transactions router and in boxes.js: a SUPER_ADMIN
\* receiving into a facility of type FACILITY succeeds for boxes that are
\* IN_TRANSIT with a latest DISPATCH to another facility, and the boxes become
\* IN_FACILITY there; a box with no DISPATCH event is received by nobody.
C22_AdminReceivesAnywhere ==
  /\ \A u \in UserIds \ NonAdmins, l \in UidLists(MaxBoxesAll) \ {<<>>} :
       LET named == Named(Db, l)
           my == user[u].facilityId
           inTransitElsewhere(f) ==
             /\ AllFound(Db, l)
             /\ \A b \in named : /\ box[b].status = "IN_TRANSIT"
                                 /\ LastDispatch(Db, b) # NoEvent
                                 /\ LastDispatch(Db, b).toFacilityId # f
           received(r, f) ==
             /\ r.code = 200
             /\ \A b \in named : /\ r.db.box[b].status = "IN_FACILITY"
                                 /\ r.db.box[b].currentFacilityId = f
       IN /\ (my \in DOMAIN facility /\ facility[my].type = "FACILITY"
                /\ inTransitElsewhere(my))
               => received(facilityReceive(Db, u, l), my)
          /\ \A t \in {f \in DOMAIN facility : facility[f].type = "FACILITY"} :
               inTransitElsewhere(t) => received(boxesFacilityReceive(Db, u, l, t), t)
  /\ \A u \in UserIds, l \in UidLists(MaxBoxesAll), t \in BoxesTo :
       (\E b \in Named(Db, l) : LastDispatch(Db, b) = NoEvent)
         => /\ facilityReceive(Db, u, l).code # 200
            /\ boxesFacilityReceive(Db, u, l, t).code # 200

\* A box on its way to F1: boxes.js refused it (400) to the administrator who
\* receives into F2, and the transactions router grants it to the
\* administrator assigned to F2.
C22_AdminRefusedByBoxes ==
  \E b \in DOMAIN box :
    LET l == <<Raw(box[b].boxUid)>> IN
    /\ resp.op = "boxes/facility-receive" /\ resp.code = 400
    /\ box[b].status = "IN_TRANSIT"
    /\ LastDispatch(Db, b).toFacilityId = "F1"
    /\ boxesFacilityReceive(Db, "admin", l, "F2") = Rejected(400, Db)
    /\ boxesFacilityReceive(Db, "adminF2", l, NULL) = Rejected(400, Db)
    /\ facilityReceive(Db, "adminF2", l).code = 200
    /\ facilityReceive(Db, "adminF2", l).db.box[b].currentFacilityId = "F2"

\* C23: warehouse-receive moves only boxes whose status is CREATED.  A listed
\* box that is IN_WAREHOUSE at a facility other than the actor's, or IN_TRANSIT,
\* IN_FACILITY, DISPENSED or VOID, makes the whole batch fail: the request is
\* answered 400, no Box row changes and no event is appended; and every box a
\* successful request reports as updated had the status CREATED.
C23_OnlyCreatedReceived ==
  \A u \in UserIds, l \in UidLists(MaxBoxes) :
    LET r == warehouseReceive(Db, u, l)
        my == user[u].facilityId
        blocking(b) ==
          \/ box[b].status = "IN_WAREHOUSE" /\ box[b].currentFacilityId # my
          \/ box[b].status \in {"IN_TRANSIT", "IN_FACILITY", "DISPENSED", "VOID"}
    IN /\ (\E b \in Named(Db, l) : blocking(b)) => r.code \in {400, 403} /\ r.db = Db
       /\ r.code = 200 =>
            \A b \in DOMAIN box :
              IF box[b].boxUid \in Range(r.updated)
              THEN box[b].status = "CREATED"
              ELSE r.db.box[b] = box[b] /\ r.db.events[b] = events[b]

\* ORD-1 is in the warehouse W1 and ORD-2 in W2: the officer of W1 was
\* refused (400) the warehouse-receive of both, and would be refused ORD-2
\* alone, which the officer of W2 is granted as already received.
C23_Witness ==
  /\ resp.op = "warehouse-receive" /\ resp.code = 400
  /\ DOMAIN box = {1, 2}
  /\ box[1].status = "IN_WAREHOUSE" /\ box[1].currentFacilityId = "W1"
  /\ box[2].status = "IN_WAREHOUSE" /\ box[2].currentFacilityId = "W2"
  /\ warehouseReceive(Db, "wo1", UidList({1, 2})) = Rejected(400, Db)
  /\ warehouseReceive(Db, "wo1", UidList({2})) = Rejected(400, Db)
  /\ warehouseReceive(Db, "wo2", UidList({2})).code = 200

\* C24: in every state reached by facility creation, single link, bulk link,
\* the backfill script and the creation of users, a WAREHOUSE facility has
\* warehouseId null; a single link of a WAREHOUSE-type record is refused and
\* changes nothing; a bulk link whose list holds a record that is not a
\* FACILITY is refused and links none of the records.
C24_WarehouseNeverLinked ==
  /\ \A f \in DOMAIN facility :
       facility[f].type = "WAREHOUSE" => facility[f].warehouseId = NULL
  /\ \A u \in {"admin", "wo1"}, f \in DOMAIN facility,
        t \in {<<"W1", NoCode>>, <<"X1", NoCode>>, <<"F1", NoCode>>, <<NULL, Raw("W2")>>,
               <<NULL, Padded("W2")>>, <<NULL, NoCode>>} :
       facility[f].type = "WAREHOUSE" =>
         LET r == linkWarehouse(u, f, t[1], t[2])
         IN r.code \in {400, 403} /\ r.facility = facility
  /\ \A u \in {"admin", "wo1"},
        t \in {<<"W1", NoCode>>, <<"X1", NoCode>>, <<"F1", NoCode>>, <<NULL, Raw("W2")>>,
               <<NULL, NoCode>>},
        ids \in {<<>>, <<"F1">>, <<"F1", "F2">>, <<"F2", "W2">>, <<"X1", "nowhere">>,
                 <<"X1", "F1">>},
        codes \in {<<>>, <<Raw("F1"), Padded("F2")>>, <<Raw("W1"), Raw("F2")>>,
                   <<Raw("X1")>>} :
       (\E f \in bulkFacilities(ids, codes) : facility[f].type # "FACILITY") =>
         LET r == bulkLinkWarehouse(u, t[1], t[2], ids, codes)
         IN r.code \in {400, 403, 404} /\ r.facility = facility

C24_Witness ==
  /\ resp.op = "bulk/link-warehouse" /\ resp.code = 400
  /\ "X1" \in DOMAIN facility
  /\ facility["X1"] = [type |-> "WAREHOUSE", warehouseId |-> NULL]
  /\ facility["F1"].warehouseId = "X1"
  /\ facility["F2"].warehouseId = "W2"
  /\ bulkLinkWarehouse("admin", "W1", NoCode, <<"F2", "W2">>, <<>>) = Refused(400)
  /\ bulkLinkWarehouse("admin", "W1", NoCode, <<"X1", "F1">>, <<>>) = Refused(400)
  /\ bulkLinkWarehouse("admin", "W1", NoCode, <<"F1", "F2">>, <<>>).code = 200
  /\ linkWarehouse("admin", "X1", "W1", NoCode) = Refused(400)

\* C25: no operation on facilities, users or boxes changes the type of an
\* existing facility or removes a facility, and a step that changes a facility
\* row changes the warehouseId of a FACILITY-type row.
C25_TypeImmutable ==
  [][\A f \in DOMAIN facility :
       /\ f \in DOMAIN facility'
       /\ facility'[f].type = facility[f].type
       /\ facility'[f] # facility[f] =>
            /\ facility[f].type = "FACILITY"
            /\ facility'[f] = [facility[f] EXCEPT !.warehouseId = facility'[f].warehouseId]]_vars

C25_Witness ==
  /\ resp.op = "backfillWarehouse" /\ resp.code = 0 /\ Len(resp.updated) = 1
  /\ "new1" \in DOMAIN user /\ user["new1"].facilityId = "X1"
  /\ facility["X1"] = [type |-> "FACILITY", warehouseId |-> "F1"]
  /\ facility["F1"] = [type |-> "FACILITY", warehouseId |-> "W2"]
  /\ facility["W1"] = [type |-> "WAREHOUSE", warehouseId |-> NULL]

\* C26: a stock query changes no table, and when it succeeds for facility F
\* its rows partition the boxes whose currentFacilityId is F by (product,
\* batchNo, expiryDate, status): one row per group, each box of F counted in
\* the row of its group with the size of the group, and the total is the
\* number of boxes whose currentFacilityId is F.
C26_StockPartitionsFacility ==
  [][resp'.op = "stock" =>
       /\ <<facility, user, order, box, events>>' = <<facility, user, order, box, events>>
       /\ resp'.code = 200 =>
            LET at == {i \in DOMAIN box : box[i].currentFacilityId = resp'.facilityId}
                lot(b) == <<b.productId, b.batchNo, b.expiryDate, b.status>>
                group(i) == {j \in at : lot(box[j]) = lot(box[i])}
            IN /\ resp'.totals = Cardinality(at)
               /\ Len(resp'.rows) = Cardinality({group(i) : i \in at})
               /\ \A i \in at : \E k \in 1..Len(resp'.rows) :
                    /\ resp'.rows[k].product = box[i].productId
                    /\ resp'.rows[k].batchNo = box[i].batchNo
                    /\ resp'.rows[k].expiryDate = box[i].expiryDate.day
                    /\ resp'.rows[k].status = box[i].status
                    /\ resp'.rows[k].count = Cardinality(group(i))]_vars

C26_Witness ==
  /\ resp.op = "stock" /\ resp.code = 200 /\ resp.facilityId = "F1"
  /\ Len(resp.rows) = 2 /\ resp.totals = 2
  /\ DOMAIN box = {1, 2}
  /\ box[1].status = "IN_FACILITY" /\ box[2].status = "DISPENSED"
  /\ stock(Db, "admin", "W1").totals = 0

\* C27: a stock query by a user who is not SUPER_ADMIN, for a facility other
\* than the one the user is assigned to, is answered 403 whatever the Box
\* table holds: the answer is the one given on the empty table.
C27_OtherFacilityStockRefused ==
  \A u \in UserIds, f \in FacilityIds \cup {"nowhere"} :
    (user[u].role # "SUPER_ADMIN" /\ f # user[u].facilityId) =>
      /\ stock(Db, u, f).code = 403
      /\ stock(Db, u, f) = stock([box |-> <<>>, events |-> <<>>], u, f)

C27_Witness ==
  /\ resp.op = "stock" /\ resp.code = 403 /\ resp.by = "fo2" /\ resp.facilityId = "F1"
  /\ resp.rows = <<>>
  /\ stock(Db, "fo1", "F1").totals = 2
  /\ stock(Db, "admin", "F1").code = 200
  /\ stock(Db, "fo2", "F2").code = 200

\* C29: a run of the reset script that completes for an order leaves no Box
\* and no BoxEvent of that order, and leaves the boxes and the events of every
\* other order as they were.
C29_ResetRemovesOnlyTheOrder ==
  [][(resp'.op = "reset_order" /\ resp'.code = 0) =>
       \E o \in DOMAIN order :
         /\ order[o].orderNumber = resp'.orderNumber
         /\ \A i \in DOMAIN box' : box'[i].orderId # o
         /\ DOMAIN events' = DOMAIN box'
         /\ DOMAIN box' \subseteq DOMAIN box
         /\ \A i \in DOMAIN box :
              box[i].orderId # o =>
                i \in DOMAIN box' /\ box'[i] = box[i] /\ events'[i] = events[i]]_vars

C29_Witness ==
  /\ resp.op = "reset_order" /\ resp.code = 0 /\ resp.orderNumber = "ORD"
  /\ DOMAIN box = {2} /\ DOMAIN events = {2}
  /\ box[2].orderId = "o2" /\ box[2].status = "DISPENSED"
  /\ Len(events[2]) = 5
  /\ order["o1"].donorName = "donor"

\* C28: in every state reached by generate and the transfer operations, the
\* last event of a box determines its row: WAREHOUSE_RECEIVE, IN_WAREHOUSE at
\* toFacilityId; DISPATCH, IN_TRANSIT with no location; FACILITY_RECEIVE,
\* IN_FACILITY at toFacilityId; DISPENSE, DISPENSED at fromFacilityId.
C28_RowIsProjectionOfLedger ==
  \A b \in DOMAIN box :
    LET last == LastEvent(events[b]) IN
      /\ last.type \in {"WAREHOUSE_RECEIVE", "DISPATCH", "FACILITY_RECEIVE", "DISPENSE"}
      /\ last.type = "WAREHOUSE_RECEIVE" =>
           box[b].status = "IN_WAREHOUSE" /\ box[b].currentFacilityId = last.toFacilityId
      /\ last.type = "DISPATCH" =>
           box[b].status = "IN_TRANSIT" /\ box[b].currentFacilityId = NULL
      /\ last.type = "FACILITY_RECEIVE" =>
           box[b].status = "IN_FACILITY" /\ box[b].currentFacilityId = last.toFacilityId
      /\ last.type = "DISPENSE" =>
           box[b].status = "DISPENSED" /\ box[b].currentFacilityId = last.fromFacilityId

\* The last event of a box is its DISPATCH from W1 to F1 and the row still
\* places the box in W1.
C28_DispatchedRowStillLocated ==
  \E b \in DOMAIN box :
    /\ LastEvent(events[b]) = Event("DISPATCH", "wo1", "W1", "F1")
    /\ Len(events[b]) = 3
    /\ box[b].status = "IN_TRANSIT"
    /\ box[b].currentFacilityId = LastEvent(events[b]).fromFacilityId

\* C30: in every state reached by generate and the transfer operations of any
\* handler, an IN_WAREHOUSE box is located at a WAREHOUSE-type facility and an
\* IN_FACILITY or DISPENSED box at a FACILITY-type facility.
C30_LocationTypeMatchesStatus ==
  \A b \in DOMAIN box :
    /\ box[b].status = "IN_WAREHOUSE" =>
         /\ box[b].currentFacilityId \in DOMAIN facility
         /\ facility[box[b].currentFacilityId].type = "WAREHOUSE"
    /\ box[b].status \in {"IN_FACILITY", "DISPENSED"} =>
         /\ box[b].currentFacilityId \in DOMAIN facility
         /\ facility[box[b].currentFacilityId].type = "FACILITY"

\* boxes.js received a box at W2 that boxes.js had dispatched there: the box
\* is IN_FACILITY at a warehouse.
C30_InFacilityAtWarehouse ==
  \E b \in DOMAIN box :
    /\ resp.op = "boxes/facility-receive" /\ resp.code = 200
    /\ box[b].status = "IN_FACILITY"
    /\ box[b].currentFacilityId = "W2"
    /\ facility["W2"].type = "WAREHOUSE"
    /\ LastEvent(events[b]).type = "FACILITY_RECEIVE"
    /\ LastEvent(events[b]).toFacilityId = "W2"

\* C31: in every state reached by facility creation, single link, bulk link
\* and the backfill script, a warehouseId that is not null names an existing
\* facility of type WAREHOUSE.
C31_WarehouseIdNamesWarehouse ==
  \A f \in DOMAIN facility :
    facility[f].warehouseId # NULL =>
      /\ facility[f].warehouseId \in DOMAIN facility
      /\ facility[facility[f].warehouseId].type = "WAREHOUSE"

\* The backfill script, run with the code of a FACILITY, linked the unlinked
\* facility X1 to it.
C31_LinkedToFacility ==
  /\ resp.op = "backfillWarehouse" /\ resp.code = 0
  /\ "X1" \in DOMAIN facility
  /\ facility["X1"].type = "FACILITY"
  /\ facility["X1"].warehouseId = "F1"
  /\ facility["F1"].type = "FACILITY"

\* C32: in every reachable state a box that is IN_TRANSIT has a DISPATCH
\* event, so the lookup of its last DISPATCH by facility-receive finds one.
C32_InTransitHasDispatch ==
  \A b \in DOMAIN box :
    box[b].status = "IN_TRANSIT" =>
      /\ CountType(b, "DISPATCH") >= 1
      /\ LastDispatch(Db, b) # NoEvent
      /\ LastDispatch(Db, b).toFacilityId \in DOMAIN facility

C32_Witness ==
  \E b \in DOMAIN box :
    /\ resp.op = "boxes/dispatch" /\ resp.code = 200
    /\ box[b].status = "IN_TRANSIT"
    /\ CountType(b, "DISPATCH") = 1
    /\ LastDispatch(Db, b).toFacilityId = "F1"
    /\ facilityReceive(Db, "fo1", <<Raw(box[b].boxUid)>>).code = 200
    /\ boxesFacilityReceive(Db, "fo1", <<Raw(box[b].boxUid)>>, NULL).code = 200

\* C33: in every reachable state no box is CREATED or VOID and no event is an
\* ADJUSTMENT; the one WAREHOUSE_RECEIVE event of a box is the second row that
\* generate wrote for it; and a warehouse-receive request, through either
\* router, changes no row and reports no box as updated.
C33_NeverCreatedNorVoid ==
  /\ \A b \in DOMAIN box :
       /\ box[b].status \in {"IN_WAREHOUSE", "IN_TRANSIT", "IN_FACILITY", "DISPENSED"}
       /\ \A k \in 1..Len(events[b]) : events[b][k].type # "ADJUSTMENT"
       /\ {k \in 1..Len(events[b]) : events[b][k].type = "WAREHOUSE_RECEIVE"} = {2}
       /\ events[b][1].type = "QR_CREATED"
       /\ events[b][2].performedByUserId = events[b][1].performedByUserId
  /\ \A u \in UserIds, l \in SentLists(MaxBoxesAll) :
       /\ warehouseReceive(Db, u, l).db = Db
       /\ warehouseReceive(Db, u, l).updated = <<>>
       /\ warehouseReceive1(Db, u, l).db = Db

C33_Witness ==
  \E b \in DOMAIN box :
    /\ resp.op = "warehouse-receive(1)" /\ resp.code = 200
    /\ box[b].status = "IN_WAREHOUSE" /\ box[b].currentFacilityId = "W1"
    /\ EventTypes(b) = <<"QR_CREATED", "WAREHOUSE_RECEIVE">>
    /\ warehouseReceive(Db, "wo1", <<Raw(box[b].boxUid)>>)
         = Outcome(200, Db, <<>>, <<box[b].boxUid>>)
    /\ warehouseReceive(Db, "wo2", <<Raw(box[b].boxUid)>>) = Rejected(400, Db)

\* C34: in every reachable state, a box that is IN_TRANSIT can be received:
\* some FACILITY_OFFICER is assigned to the toFacilityId of its last DISPATCH
\* event and the facility-receive of every such officer succeeds; and no
\* request that names a DISPENSED box succeeds.
C34_InTransitReceivableDispensedFinal ==
  \A b \in DOMAIN box :
    LET l == <<Raw(box[b].boxUid)>>
        to == LastDispatch(Db, b).toFacilityId
        officers == {u \in UserIds : user[u].role = "FACILITY_OFFICER"
                                     /\ user[u].facilityId = to}
    IN /\ box[b].status = "IN_TRANSIT" =>
            /\ officers # {}
            /\ \A u \in officers : facilityReceive(Db, u, l).code = 200
       /\ box[b].status = "DISPENSED" =>
            \A u \in UserIds :
              /\ warehouseReceive(Db, u, l).code # 200
              /\ facilityReceive(Db, u, l).code # 200
              /\ dispense(Db, u, l[1]).code # 200
              /\ \A c \in FacilityCodes : dispatch(Db, u, l, c).code # 200
              /\ \A t \in BoxesTo : boxesFacilityReceive(Db, u, l, t).code # 200
              /\ \A t \in BoxesTo, f \in BoxesFrom : boxesDispatch(Db, u, l, t, f).code # 200

\* boxes.js dispatched the box to the warehouse W2: no FACILITY_OFFICER is
\* assigned there and the facility-receive of the transactions router answers
\* no user who is not SUPER_ADMIN with 200.
C34_StuckInTransit ==
  \E b \in DOMAIN box :
    /\ resp.op = "boxes/dispatch" /\ resp.code = 200
    /\ box[b].status = "IN_TRANSIT"
    /\ LastDispatch(Db, b).toFacilityId = "W2"
    /\ facility["W2"].type = "WAREHOUSE"
    /\ \A u \in UserIds : user[u].role = "FACILITY_OFFICER" => user[u].facilityId # "W2"
    /\ \A u \in NonAdmins : facilityReceive(Db, u, <<Raw(box[b].boxUid)>>).code # 200
    /\ facilityReceive(Db, "wo2", <<Raw(box[b].boxUid)>>).code = 403

\* C35: a transfer request, through any handler and whether it succeeds or
\* fails, creates and removes no box, leaves every column other than status
\* and currentFacilityId of every box as it was, leaves every box its boxUids
\* list does not name unchanged, and changes nothing when it fails.
C35_TransferFrame ==
  LET frame(r, l) ==
        /\ DOMAIN r.db.box = DOMAIN box
        /\ \A b \in DOMAIN box :
             /\ r.db.box[b] = [box[b] EXCEPT !.status = r.db.box[b].status,
                                             !.currentFacilityId = r.db.box[b].currentFacilityId]
             /\ r.db.box[b].boxUid = box[b].boxUid
             /\ r.db.box[b].orderId = box[b].orderId
             /\ r.db.box[b].productId = box[b].productId
             /\ r.db.box[b].batchNo = box[b].batchNo
             /\ r.db.box[b].expiryDate = box[b].expiryDate
             /\ b \notin Named(Db, l) => r.db.box[b] = box[b]
        /\ r.code \notin {200, 201} => r.db.box = box
  IN \A u \in UserIds :
       /\ \A l \in SentLists(MaxBoxes) :
            /\ frame(warehouseReceive(Db, u, l), l)
            /\ frame(facilityReceive(Db, u, l), l)
            /\ frame(warehouseReceive1(Db, u, l), l)
            /\ frame(facilityReceive1(Db, u, l), l)
            /\ \A c \in FacilityCodes :
                 frame(dispatch(Db, u, l, c), l) /\ frame(dispatch1(Db, u, l, c), l)
            /\ \A t \in BoxesTo :
                 /\ frame(boxesFacilityReceive(Db, u, l, t), l)
                 /\ \A f \in BoxesFrom : frame(boxesDispatch(Db, u, l, t, f), l)
       /\ \A x \in SentUids(MaxBoxes) :
            /\ frame(dispense(Db, u, x), <<x>>)
            /\ frame(dispense1(Db, u, x), <<x>>)
            /\ frame(clinicalDispense(Db, u, "c1", x), <<x>>)

C35_Witness ==
  /\ resp.op = "dispatch" /\ resp.code = 200
  /\ DOMAIN box = {1, 2}
  /\ box[1].status = "IN_TRANSIT" /\ box[1].currentFacilityId = NULL
  /\ box[2].status = "IN_WAREHOUSE" /\ box[2].currentFacilityId = "W1"
  /\ box[1].batchNo = "B1" /\ box[1].expiryDate.day = "2027-01-31"
  /\ facilityReceive(Db, "fo1", UidList({1})).db.box[2] = box[2]
  /\ facilityReceive(Db, "fo1", UidList({1})).db.box[1].status = "IN_FACILITY"
  /\ boxesDispatch(Db, "wo1", UidList({2}), "F1", NULL).db.box[2].status = "IN_TRANSIT"
  /\ boxesDispatch(Db, "wo1", UidList({2}), "F1", NULL).db.box[1] = box[1]

C37_WarehouseReceiveLists ==
  LET asCreated(S) ==
        [Db EXCEPT !.box =
           [i \in DOMAIN box |->
              IF i \in S THEN [box[i] EXCEPT !.status = "CREATED", !.currentFacilityId = NULL]
              ELSE box[i]]]
      row(db, uid) == CHOOSE b \in DOMAIN db.box : db.box[b].boxUid = uid
      lists(db, u, l) ==
        LET r == warehouseReceive(db, u, l)
            up == Range(r.updated)
            sk == Range(r.skipped)
        IN r.code = 200 =>
             /\ up \cap sk = {}
             /\ up \cup sk = {Trim(l[k]) : k \in 1..Len(l)}
             /\ Len(r.updated) = Cardinality(up) /\ Len(r.skipped) = Cardinality(sk)
             /\ \A x \in up : db.box[row(db, x)].status = "CREATED"
             /\ \A x \in sk : /\ db.box[row(db, x)].status = "IN_WAREHOUSE"
                              /\ db.box[row(db, x)].currentFacilityId = user[u].facilityId
             /\ \A b \in DOMAIN db.box :
                  IF db.box[b].boxUid \in up
                  THEN /\ OneMore(r.db.events[b], db.events[b])
                       /\ LastEvent(r.db.events[b]).type = "WAREHOUSE_RECEIVE"
                  ELSE r.db.events[b] = db.events[b]
  IN \A S \in SUBSET {b \in DOMAIN box : box[b].status = "IN_WAREHOUSE"} :
       \A u \in UserIds, l \in SentLists(MaxBoxes) : lists(asCreated(S), u, l)

C37_Witness ==
  /\ resp.op = "warehouse-receive" /\ resp.code = 200
  /\ resp.updated = <<>>
  /\ resp.skipped = <<BoxUidOf("ORD", 1), BoxUidOf("ORD", 2)>>
  /\ box[1].status = "IN_WAREHOUSE" /\ box[2].status = "IN_WAREHOUSE"
  /\ warehouseReceive(Db, "wo1", <<Padded(BoxUidOf("ORD", 2)), SentUid(2)>>).skipped
       = <<BoxUidOf("ORD", 2)>>

\* C38: when no reset is under way, every Box row has its complete event
\* history, which begins with the QR_CREATED and WAREHOUSE_RECEIVE rows
\* generate wrote: a reset that interleaves with transfers leaves each box
\* of the order without row and events, or with its row and all its events.
C38_ResetAtomic ==
  inflight = {} =>
    \A b \in DOMAIN box :
      /\ Len(events[b]) >= 2
      /\ events[b][1].type = "QR_CREATED"
      /\ events[b][2].type = "WAREHOUSE_RECEIVE"

C38_RowWithoutEarlierEvents ==
  /\ inflight = {}
  /\ resp.op = "reset_order" /\ resp.code = 1
  /\ \E b \in DOMAIN box :
       /\ box[b].orderId = "o1"
       /\ box[b].status = "IN_TRANSIT"
       /\ EventTypes(b) = <<"DISPATCH">>

\* C39: a generate request that is not answered 200, whether it is refused
\* before its transaction or fails inside it, leaves the Order and Product
\* tables as the request found them, and the boxes and events as they were.
C39_FailedGenerateChangesNothing ==
  [][/\ (resp'.op = "generate" /\ resp'.code # 200 /\ inflight' = inflight) =>
          /\ order' = order /\ product' = product
          /\ box' = box /\ events' = events
     /\ \A r \in inflight :
          (r \notin inflight' /\ resp'.code # 200) =>
            /\ order' = r.before.order
            /\ product' = r.before.product
            /\ box' = box /\ events' = events]_vars

C39_DonorAndProductOfFailedRequest ==
  /\ inflight = {}
  /\ resp.op = "generate" /\ resp.code = 500
  /\ Cardinality(DOMAIN box) = 1
  /\ order["o1"].donorName = "donor"
  /\ product["RUTF"] = "Nut"

====
